---------------------------- MODULE Spec2Model ----------------------------
(***************************************************************************)
(* ChromaForge ASE editor: the binary codec (ase-utils), the colour        *)
(* conversion pipeline (color-utils, color-engine) and the hierarchical    *)
(* sort (main), as state machines over the editor's state.                 *)
(*                                                                         *)
(* Conventions                                                             *)
(*  - a JavaScript string is the sequence of its UTF-16 code units;        *)
(*  - an ArrayBuffer is the sequence of its bytes, offset o is index o+1;  *)
(*  - a JavaScript number that carries a colour value is an integer count  *)
(*    of 1/Scale units (fixed point); arithmetic on it follows the source  *)
(*    expression by expression and rounds to the nearest unit;             *)
(*  - an optional field of a Block that is undefined is absent from the    *)
(*    record that models the block.                                        *)
(***************************************************************************)
EXTENDS Integers, Sequences, FiniteSets, TLC

VARIABLES
    aseData,        \* state.aseData: [version, blocks]
    savedData,      \* the document handed to createASEBuffer by the last saveASE
    fileBuffer,     \* the bytes of the .ase file on disk
    fileKind,       \* "none" | "saved" | "foreign" | "truncated" | "badsig"
    foreignAt,      \* block index at which another tool's block sits, or -1
    foreignKind,    \* which foreign block, "" if none
    parsed,         \* what parseASE returned (or threw) in the last loadFile
    enginePc,       \* where initColorEngine stands
    Module,         \* the LittleCMS module: "null" | "loaded"
    cmykData,       \* the fetched CMYK profile: "pending" | "null" | "data"
    cmykTransform,  \* the transform handle, 0 for null
    isReady,        \* color-engine's isReady
    block,          \* the block last handed to the colour functions
    rgbOut,         \* blockToRgb(block)
    cssOut,         \* the three numbers getCSSColor(block) prints
    authOut,        \* isAuthoritative(block)
    cmykCall,       \* the call of cmykToProfileRGB made for block, if any
    sortBlocks,     \* the blocks given to sortBlocksHierarchically
    sortCriterion,  \* its criterion, "" before the call
    sortResult,     \* what it returned
    rgbIn,          \* the triplet given to rgbToCmyk
    cmykOut,        \* what rgbToCmyk returned
    rgbBack,        \* blockToRgb of a CMYK block with those values
    historyStack,   \* history.ts: the snapshots, historyStack[i] is index i + 1
    historyIndex,   \* history.ts: historyIndex
    onRestore,      \* history.ts: "null" | "restoreHistoryState"
    currentSelection, \* state.currentSelection, -1 for null
    lastCall,       \* the last call into history.ts and what it returned
    handed,         \* what the last call handed to the restore callback
    editCount,      \* edits made so far
    lateEdits,      \* edits made since the first successful undo
    undoCount,      \* successful undos so far
    currentFileName, \* state.currentFileName
    viewMode,       \* state.viewMode: "grid" | "list"
    showContrastOverlay, \* state.showContrastOverlay
    db,             \* storage.ts: db, "null" | "open"
    saveTimeout,    \* storage.ts: saveTimeout, the id of a timer, 0 for undefined
    timers,         \* the window's pending timers: [id, kind, remaining (ms)]
    sinceSave,      \* ms since the last debouncedSave() not yet followed by a
                    \* persistState(), -1 if there is none
    runCalls,       \* the debouncedSave() calls of the current run, or of the
                    \* last one if persistState() ended it (counted to RunCap)
    isComplete,     \* initStorage: isComplete
    timeoutId,      \* initStorage: timeoutId, 0 before the call
    initPromise,    \* the promise of initStorage: "none" | "pending" | "true" | "false"
    openRequest,    \* indexedDB.open: "none" | "pending" | "success" | "error"
    readRequest,    \* store.get: "none" | "pending" | "success" | "error" | "threw"
    stored,         \* the record under DB_KEY in the object store
    lastPersist,    \* who called persistState last, and what it wrote
    deleteConfirm,  \* state.deleteConfirm
    deleteAllConfirm, \* state.deleteAllConfirm
    lastOp          \* the handler that ran last, with its arguments

colorVars == <<enginePc, Module, cmykData, cmykTransform, isReady,
               block, rgbOut, cssOut, authOut, cmykCall>>

codecVars == <<aseData, savedData, fileBuffer, fileKind, foreignAt, foreignKind, parsed>>

sortVars == <<sortBlocks, sortCriterion, sortResult>>

tripVars == <<rgbIn, cmykOut, rgbBack>>

\* the variables of history.ts and state.currentSelection
historyVars == <<historyStack, historyIndex, onRestore, currentSelection>>

\* the record of the calls made
callVars == <<lastCall, handed, editCount, lateEdits, undoCount>>

\* the file side of the codec
fileVars == <<savedData, fileBuffer, fileKind, foreignAt, foreignKind, parsed>>

\* the fields of state the session is saved with, besides aseData
stateVars == <<currentFileName, viewMode, showContrastOverlay>>

\* what debouncedSave touches
timerVars == <<saveTimeout, timers, sinceSave, runCalls>>

storageVars == <<db, isComplete, timeoutId, initPromise, openRequest, readRequest, stored, lastPersist>>

editVars == <<deleteConfirm, deleteAllConfirm, lastOp>>

vars == <<codecVars, colorVars, sortVars, tripVars, historyVars, callVars,
          stateVars, timerVars, storageVars, editVars>>

\* what the actions of one part leave alone
codecOthers == <<colorVars, sortVars, tripVars, historyVars, callVars,
                 stateVars, timerVars, storageVars, editVars>>
colorOthers == <<codecVars, sortVars, tripVars, historyVars, callVars,
                 stateVars, timerVars, storageVars, editVars>>
sortOthers == <<codecVars, colorVars, tripVars, historyVars, callVars,
                 stateVars, timerVars, storageVars, editVars>>
tripOthers == <<codecVars, colorVars, sortVars, historyVars, callVars,
                 stateVars, timerVars, storageVars, editVars>>
historyOthers == <<fileVars, colorVars, sortVars, tripVars, stateVars, storageVars,
                   deleteConfirm, deleteAllConfirm>>

(***************************************************************************)
(* Bounds of the model                                                     *)
(***************************************************************************)
MaxBlocks == 2

\* longest block list handed to the sort
MaxSortLen == 4

\* edits made in one session: enough for the history to pass its limit
MaxEdits == 50

\* successful undos in one session
MaxUndos == 1

\* edits made after the first undo of a session
MaxLateEdits == 2

\* debouncedSave calls counted in one run
RunCap == 2

\* changes made to the document in one burst of editing
MaxOps == 1

\* resolution of the fixed-point numbers: 1/10000
Scale == 100 * 100

(***************************************************************************)
(* Helpers on sequences                                                    *)
(***************************************************************************)
RECURSIVE Flatten(_)
Flatten(ss) == IF ss = <<>> THEN <<>> ELSE Head(ss) \o Flatten(Tail(ss))

Abs(x) == IF x < 0 THEN -x ELSE x

Has(b, f) == f \in DOMAIN b

(***************************************************************************)
(* IEEE-754 binary32, as DataView.setFloat32 / getFloat32 store and read   *)
(* it (big-endian).  v is a number in 1/Scale units.                       *)
(***************************************************************************)
\* binary long division: n more quotient bits of r/D, r < D
RECURSIVE LongDiv(_, _, _, _)
LongDiv(q, r, D, n) ==
    IF n = 0 THEN <<q, r>>
    ELSE LET d == 2 * r
         IN  IF d >= D THEN LongDiv(2 * q + 1, d - D, D, n - 1)
                       ELSE LongDiv(2 * q, d, D, n - 1)

\* the exponent e with 2^e <= a/Scale < 2^(e+1), a > 0
RECURSIVE ExpUp(_, _)
ExpUp(a, e) == IF Scale * (2 ^ (e + 1)) <= a THEN ExpUp(a, e + 1) ELSE e
RECURSIVE ExpDown(_, _)
ExpDown(a, k) == IF a * (2 ^ k) >= Scale THEN k ELSE ExpDown(a, k + 1)

Float32Exp(a) == IF a >= Scale THEN ExpUp(a, 0) ELSE -ExpDown(a, 1)

\* <<biased exponent, 23-bit fraction>> of the float32 nearest to a/Scale, a > 0
Float32Fields(a) ==
    LET e  == Float32Exp(a)
        D  == IF e >= 0 THEN Scale * (2 ^ e) ELSE Scale
        n  == IF e >= 0 THEN a ELSE a * (2 ^ (-e))
        qr == LongDiv(1, n - D, D, 23)
        q  == qr[1]
        r  == qr[2]
        up == (2 * r > D) \/ (2 * r = D /\ q % 2 = 1)   \* round half to even
        M  == IF up THEN q + 1 ELSE q
    IN  IF M = 2 ^ 24 THEN <<e + 128, 0>> ELSE <<e + 127, M - 2 ^ 23>>

setFloat32(v) ==
    IF v = 0 THEN <<0, 0, 0, 0>>
    ELSE LET f    == Float32Fields(Abs(v))
             E    == f[1]
             frac == f[2]
             s    == IF v < 0 THEN 128 ELSE 0
         IN  << s + (E \div 2),
                (E % 2) * 128 + (frac \div 65536),
                (frac \div 256) % 256,
                frac % 256 >>

\* the number read back, to the nearest 1/Scale unit
getFloat32(buf, off) ==
    LET b0   == buf[off + 1]
        b1   == buf[off + 2]
        b2   == buf[off + 3]
        b3   == buf[off + 4]
        neg  == b0 >= 128
        E    == (b0 % 128) * 2 + (b1 \div 128)
        frac == (b1 % 128) * 65536 + b2 * 256 + b3
        M    == 2 ^ 23 + frac
        s    == 23 - (E - 127)
        \* M * Scale = T * 4096 + (a remainder below 4096)
        T    == (M \div 4096) * Scale + ((M % 4096) * Scale) \div 4096
        mag  == IF E = 0 \/ s - 12 > 30 THEN 0
                ELSE IF s >= 13 THEN (T + 2 ^ (s - 13)) \div (2 ^ (s - 12))
                ELSE T * (2 ^ (12 - s))
    IN  IF neg THEN -mag ELSE mag

(***************************************************************************)
(* ase-utils: internal helpers                                             *)
(***************************************************************************)
u16(val) == << (val \div 256) % 256, val % 256 >>

u32(val) == << (val \div 16777216) % 256, (val \div 65536) % 256,
               (val \div 256) % 256, val % 256 >>

strToBytes(str) == [i \in 1..Len(str) |-> str[i] % 256]

strToUTF16Bytes(str) == Flatten([i \in 1..Len(str) |-> u16(str[i])])

mergeBuffers(chunks) == Flatten(chunks)

\* DataView reads; a read that leaves the buffer throws a RangeError
InBuffer(buf, off, n) == off >= 0 /\ off + n <= Len(buf)

getUint8(buf, off) == buf[off + 1]

getUint16(buf, off) == buf[off + 1] * 256 + buf[off + 2]

getUint32(buf, off) ==
    ((buf[off + 1] * 256 + buf[off + 2]) * 256 + buf[off + 3]) * 256 + buf[off + 4]

getChar(buf, off, length) == [i \in 1..length |-> getUint8(buf, off + i - 1)]

getUTF16String(buf, off, length) ==
    [i \in 1..(IF length >= 1 THEN length - 1 ELSE 0) |-> getUint16(buf, off + (i - 1) * 2)]

\* the bytes getUTF16String touches lie inside the buffer
UTF16InBuffer(buf, off, length) ==
    length <= 1 \/ InBuffer(buf, off, (length - 1) * 2)

(***************************************************************************)
(* Strings of the format                                                   *)
(***************************************************************************)
SigASEF == <<65, 83, 69, 70>>      \* "ASEF"
TagRGB  == <<82, 71, 66, 32>>      \* "RGB "
TagCMYK == <<67, 77, 89, 75>>      \* "CMYK"
TagLAB  == <<76, 65, 66, 32>>      \* "LAB "
TagGray == <<71, 114, 97, 121>>    \* "Gray"
TagHSB  == <<72, 83, 66, 32>>      \* "HSB ", a tag the parser does not know


(***************************************************************************)
(* ase-utils: createASEBuffer                                              *)
(***************************************************************************)
\* JavaScript truthiness of the optional fields
NameTruthy(b) == Has(b, "name") /\ b.name # <<>>

ModelOrDefault(b) == IF Has(b, "model") /\ b.model # <<>> THEN b.model ELSE TagRGB

ColorTypeOrDefault(b) == IF Has(b, "colorType") /\ b.colorType # 0 THEN b.colorType ELSE 2

\* the chunk written for one block; a block no branch accepts writes nothing
EncodeBlock(b) ==
    IF b.type = "groupStart" /\ NameTruthy(b) THEN
        LET nameBytes == strToUTF16Bytes(b.name \o <<0>>)
            len       == 2 + Len(nameBytes)
        IN  mergeBuffers(<<u16(49153), u32(len), u16(Len(b.name) + 1), nameBytes>>)
    ELSE IF b.type = "groupEnd" THEN
        mergeBuffers(<<u16(49154), u32(0)>>)
    ELSE IF b.type = "color" /\ NameTruthy(b) /\ Has(b, "values") THEN
        LET nameBytes   == strToUTF16Bytes(b.name \o <<0>>)
            modelBytes  == strToBytes(ModelOrDefault(b))
            valBytesLen == Len(b.values) * 4
            payloadLen  == 2 + Len(nameBytes) + 4 + valBytesLen + 2
            fView       == Flatten([i \in 1..Len(b.values) |-> setFloat32(b.values[i])])
        IN  mergeBuffers(<<u16(1), u32(payloadLen), u16(Len(b.name) + 1), nameBytes,
                           modelBytes, fView, u16(ColorTypeOrDefault(b))>>)
    ELSE <<>>

EncodeHeader(version, count) ==
    mergeBuffers(<<strToBytes(SigASEF), u16(version[1]), u16(version[2]), u32(count)>>)

createASEBuffer(data) ==
    EncodeHeader(data.version, Len(data.blocks))
        \o Flatten([i \in 1..Len(data.blocks) |-> EncodeBlock(data.blocks[i])])

(***************************************************************************)
(* ase-utils: parseASE                                                     *)
(***************************************************************************)
RangeError == [ok |-> FALSE, error |-> "RangeError"]
SignatureError == [ok |-> FALSE, error |-> "Invalid File Signature (Not ASE)"]

StripNul(str) == SelectSeq(str, LAMBDA c : c # 0)

NumChannels(model) ==
    IF model = TagCMYK THEN 4
    ELSE IF model = TagRGB \/ model = TagLAB THEN 3
    ELSE IF model = TagGray THEN 1
    ELSE 0

\* the fields of one block read from offset off: [ok, blocks, offset]
ParseGroupStart(buf, off) ==
    IF ~InBuffer(buf, off, 2) THEN RangeError
    ELSE LET nameLen == getUint16(buf, off)
         IN  IF ~UTF16InBuffer(buf, off + 2, nameLen) THEN RangeError
             ELSE [ok |-> TRUE,
                   blocks |-> << [type |-> "groupStart",
                                  name |-> getUTF16String(buf, off + 2, nameLen)] >>,
                   offset |-> off + 2 + nameLen * 2,
                   read |-> off + 2 + (IF nameLen >= 1 THEN (nameLen - 1) * 2 ELSE 0)]

ParseColor(buf, off) ==
    IF ~InBuffer(buf, off, 2) THEN RangeError
    ELSE LET nameLen == getUint16(buf, off)
             o1      == off + 2
             o2      == o1 + nameLen * 2
         IN  IF ~UTF16InBuffer(buf, o1, nameLen) \/ ~InBuffer(buf, o2, 4) THEN RangeError
             ELSE LET name   == getUTF16String(buf, o1, nameLen)
                      model  == getChar(buf, o2, 4)
                      n      == NumChannels(model)
                      o3     == o2 + 4
                      o4     == o3 + 4 * n
                  IN  IF ~InBuffer(buf, o3, 4 * n) \/ ~InBuffer(buf, o4, 2) THEN RangeError
                      ELSE [ok |-> TRUE,
                            blocks |-> << [type |-> "color",
                                           name |-> StripNul(name),
                                           model |-> model,
                                           values |-> [k \in 1..n |-> getFloat32(buf, o3 + 4 * (k - 1))],
                                           colorType |-> getUint16(buf, o4)] >>,
                            offset |-> o4 + 2,
                            read |-> o4 + 2]

ParseFields(buf, off, blockType) ==
    IF blockType = 49153 THEN ParseGroupStart(buf, off)
    ELSE IF blockType = 49154 THEN
        [ok |-> TRUE, blocks |-> << [type |-> "groupEnd"] >>, offset |-> off, read |-> off]
    ELSE IF blockType = 1 THEN ParseColor(buf, off)
    ELSE [ok |-> TRUE, blocks |-> <<>>, offset |-> off, read |-> off]

NextOffset_Mutant(endOfBlock, fieldOffset) == fieldOffset

\* where the cursor goes after a block
NextOffset(endOfBlock, fieldOffset) == endOfBlock

HeaderPastEnd_Mutant(blocks, read) == [ok |-> TRUE, blocks |-> blocks, read |-> read]

\* the read of a block header that starts at or beyond the end of the buffer
HeaderPastEnd(blocks, read) == RangeError

\* read: the offset just behind the last byte read so far
RECURSIVE ParseBlocks(_, _, _, _, _)
ParseBlocks(buf, off, remaining, blocks, read) ==
    IF remaining = 0 THEN [ok |-> TRUE, blocks |-> blocks, read |-> read]
    ELSE IF ~InBuffer(buf, off, 6) THEN HeaderPastEnd(blocks, read)
    ELSE LET blockType  == getUint16(buf, off)
             blockLen   == getUint32(buf, off + 2)
             endOfBlock == off + 6 + blockLen
             r          == ParseFields(buf, off + 6, blockType)
         IN  IF ~r.ok THEN RangeError
             ELSE ParseBlocks(buf, NextOffset(endOfBlock, r.offset),
                              remaining - 1, blocks \o r.blocks,
                              IF r.read > read THEN r.read ELSE read)

SignatureOK_Mutant(signature) == TRUE

\* the signature test of parseASE
SignatureOK(signature) == signature = SigASEF

ParseBody(buf) ==
    IF ~InBuffer(buf, 4, 8) THEN RangeError
    ELSE LET verMaj     == getUint16(buf, 4)
             verMin     == getUint16(buf, 6)
             blockCount == getUint32(buf, 8)
             r          == ParseBlocks(buf, 12, blockCount, <<>>, 12)
         IN  IF ~r.ok THEN RangeError
             ELSE [ok |-> TRUE, data |-> [version |-> <<verMaj, verMin>>, blocks |-> r.blocks]]

parseASE(buf) ==
    IF ~InBuffer(buf, 0, 4) THEN RangeError
    ELSE IF ~SignatureOK(getChar(buf, 0, 4)) THEN SignatureError
    ELSE ParseBody(buf)


(***************************************************************************)
(* The codec as the editor uses it: saveASE writes state.aseData to a      *)
(* file, the file may come back changed (cut short, written by another     *)
(* tool, not an ASE file), loadFile parses it into state.aseData.          *)
(***************************************************************************)
NotLoaded == [ok |-> FALSE, error |-> "not loaded"]

EmptyData == [version |-> <<1, 0>>, blocks |-> <<>>]

\* the blocks documents are built from
CodecBlocks ==
    { [type |-> "groupStart", name |-> <<71>>],                       \* "G"
      [type |-> "groupStart", name |-> <<>>],                         \* untitled group
      [type |-> "groupEnd"],
      [type |-> "color", name |-> <<82>>, model |-> TagRGB,           \* "R"
       values |-> <<10000, 2000, 2000>>, colorType |-> 1],
      [type |-> "color", name |-> <<9786>>, model |-> TagCMYK,        \* U+263A
       values |-> <<0, 5000, 10000, 2500>>, colorType |-> 2],
      [type |-> "color", name |-> <<65>>, model |-> TagGray,          \* "A"
       values |-> <<5000>>, colorType |-> 0],
      [type |-> "color", name |-> <<76>>, model |-> TagLAB,           \* "L"
       values |-> <<6500, -125000, 1270000>>, colorType |-> 2] }

BlockSeqs(S, n) == UNION { [1..k -> S] : k \in 0..n }

\* blocks of other tools' files
ForeignKinds == {"unknownType", "longGroupEnd", "unknownModel"}

UnknownModelColor ==
    [type |-> "color", name |-> <<72>>, model |-> TagHSB,
     values |-> <<1000, 2000, 3000>>, colorType |-> 2]

ForeignChunk(kind) ==
    IF kind = "unknownType" THEN mergeBuffers(<<u16(49155), u32(3), <<1, 2, 3>> >>)
    ELSE IF kind = "longGroupEnd" THEN mergeBuffers(<<u16(49154), u32(2), <<0, 1>> >>)
    ELSE EncodeBlock(UnknownModelColor)

\* the file of data with a foreign block before block at + 1
ForeignFile(data, at, kind) ==
    EncodeHeader(data.version, Len(data.blocks) + 1)
        \o Flatten([i \in 1..at |-> EncodeBlock(data.blocks[i])])
        \o ForeignChunk(kind)
        \o Flatten([i \in 1..(Len(data.blocks) - at) |-> EncodeBlock(data.blocks[at + i])])

(***************************************************************************)
(* history                                                                 *)
(***************************************************************************)
HistoryLimit == 50

\* JSON.stringify of an AseData: numbers, strings and arrays, absent fields
\* stay absent
JSONstringify(data) == [json |-> data]

JSONparse(str) == str.json

\* historyStack and historyIndex after initHistory(initialData, callback)
initHistory(initialData) ==
    [historyStack |-> <<JSONstringify(initialData)>>, historyIndex |-> 0]

\* the stack pushHistory appends to
TruncateFuture_Mutant(stack, index) == stack

\* if (historyIndex < historyStack.length - 1) historyStack = historyStack.slice(0, historyIndex + 1)
TruncateFuture(stack, index) ==
    IF index < Len(stack) - 1 THEN SubSeq(stack, 1, index + 1) ELSE stack

LimitStack_Mutant(stack) == stack

\* if (historyStack.length > 50) historyStack.shift()
LimitStack(stack) == IF Len(stack) > HistoryLimit THEN Tail(stack) ELSE stack

\* historyStack and historyIndex after pushHistory() with state.aseData = data
pushHistory(stack, index, data) ==
    LET limited == LimitStack(Append(TruncateFuture(stack, index), JSONstringify(data)))
    IN  [historyStack |-> limited, historyIndex |-> Len(limited) - 1]

\* restore() reaches the callback: onRestore && historyStack[historyIndex]
Restores(stack, index, callback) ==
    callback # "null" /\ index >= 0 /\ index < Len(stack)

\* no document
NoData == [version |-> <<>>, blocks |-> <<>>]

\* op, ok: the call and what it returned; before: state.aseData at the call;
\* context: state.aseData as it was at the call before this one, kept when an
\* undo follows an edit or a redo follows a successful undo
NoCallYet == [op |-> "none", ok |-> FALSE, before |-> NoData, context |-> NoData]

NotHanded == [handed |-> FALSE]

\* history.ts as loaded, nothing selected
HistoryIdle ==
    /\ historyStack = <<>>
    /\ historyIndex = -1
    /\ onRestore = "null"
    /\ currentSelection = -1
    /\ lastCall = NoCallYet
    /\ handed = NotHanded
    /\ editCount = 0
    /\ lateEdits = 0
    /\ undoCount = 0

(***************************************************************************)
(* storage                                                                 *)
(***************************************************************************)
\* initStorage's safety timeout, ms
OpenTimeout == 3000

\* debouncedSave's delay, ms
SaveDelay == 1000

\* state.currentFileName as state.ts sets it
DefaultFileName == "chromaforge-palette.ase"

\* the id setTimeout returns: a positive integer that no pending timer has and
\* that no variable in held still carries
NewTimerId(ts, held) ==
    LET used == {t.id : t \in ts} \cup held
    IN  CHOOSE i \in 1..(Cardinality(used) + 1) :
            i \notin used /\ \A j \in 1..(i - 1) : j \in used

setTimeout(ts, id, kind, delay) ==
    ts \cup {[id |-> id, kind |-> kind, remaining |-> delay]}

clearTimeout(ts, id) == {t \in ts : t.id # id}

ClearPending_Mutant(ts, id) == ts

\* if (saveTimeout) clearTimeout(saveTimeout)
ClearPending(ts, id) == IF id # 0 THEN clearTimeout(ts, id) ELSE ts

\* saveTimeout and the pending timers after debouncedSave()
debouncedSave(timeout, ts) ==
    LET cleared == ClearPending(ts, timeout)
        id == NewTimerId(cleared, {})
    IN  [saveTimeout |-> id, timers |-> setTimeout(cleared, id, "save", SaveDelay)]

\* a handler calls debouncedSave()
DebouncedSave ==
    /\ saveTimeout' = debouncedSave(saveTimeout, timers).saveTimeout
    /\ timers' = debouncedSave(saveTimeout, timers).timers
    /\ sinceSave' = 0
    /\ runCalls' = IF sinceSave = -1 THEN 1
                   ELSE IF runCalls < RunCap THEN runCalls + 1 ELSE runCalls

\* nothing under DB_KEY
NoRecord == [found |-> FALSE]

NotPersisted == [by |-> "none", wrote |-> FALSE]

\* storage.ts as loaded, state.ts's defaults
StorageIdle ==
    /\ currentFileName = DefaultFileName
    /\ viewMode = "grid"
    /\ showContrastOverlay = FALSE
    /\ db = "null"
    /\ saveTimeout = 0
    /\ timers = {}
    /\ sinceSave = -1
    /\ runCalls = 0
    /\ isComplete = FALSE
    /\ timeoutId = 0
    /\ initPromise = "none"
    /\ openRequest = "none"
    /\ readRequest = "none"
    /\ stored = NoRecord
    /\ lastPersist = NotPersisted

NoOp == [op |-> "none"]

\* no confirmation asked for, no handler run
EditIdle ==
    /\ deleteConfirm = FALSE
    /\ deleteAllConfirm = FALSE
    /\ lastOp = NoOp

NoBlock == [type |-> "groupEnd"]

NoCall == [made |-> FALSE, usable |-> FALSE, threw |-> FALSE,
           args |-> <<0, 0, 0, 0>>, out |-> <<0, 0, 0>>]

\* color-engine.ts module state before initColorEngine, nothing converted yet
ColorIdle ==
    /\ enginePc = "idle"
    /\ Module = "null"
    /\ cmykData = "pending"
    /\ cmykTransform = 0
    /\ isReady = FALSE
    /\ block = NoBlock
    /\ rgbOut = <<0, 0, 0>>
    /\ cssOut = <<0, 0, 0>>
    /\ authOut = FALSE
    /\ cmykCall = NoCall

\* no document, no file
CodecIdle ==
    /\ aseData = EmptyData
    /\ savedData = EmptyData
    /\ fileBuffer = <<>>
    /\ fileKind = "none"
    /\ foreignAt = -1
    /\ foreignKind = ""
    /\ parsed = NotLoaded

\* nothing to sort
SortIdle ==
    /\ sortBlocks = <<>>
    /\ sortCriterion = ""
    /\ sortResult = <<>>

\* nothing converted to CMYK
TripIdle ==
    /\ rgbIn = <<>>
    /\ cmykOut = <<>>
    /\ rgbBack = <<>>

InitCodec ==
    /\ aseData \in [version : {<<1, 0>>}, blocks : BlockSeqs(CodecBlocks, MaxBlocks)]
    /\ savedData = EmptyData
    /\ fileBuffer = <<>>
    /\ fileKind = "none"
    /\ foreignAt = -1
    /\ foreignKind = ""
    /\ parsed = NotLoaded
    /\ ColorIdle
    /\ SortIdle
    /\ TripIdle
    /\ HistoryIdle
    /\ StorageIdle
    /\ EditIdle

\* saveASE: createASEBuffer(state.aseData), unless there is nothing to save
SaveASE ==
    /\ Len(aseData.blocks) > 0
    /\ Len(aseData.blocks) <= MaxBlocks
    /\ fileKind = "none" \/ parsed # NotLoaded
    /\ fileBuffer' = createASEBuffer(aseData)
    /\ savedData' = aseData
    /\ fileKind' = "saved"
    /\ foreignAt' = -1
    /\ foreignKind' = ""
    /\ parsed' = NotLoaded
    /\ UNCHANGED aseData
    /\ UNCHANGED codecOthers

\* the file chosen is one another tool wrote: the same blocks and one more
OtherToolFile ==
    /\ fileKind = "saved"
    /\ parsed = NotLoaded
    /\ \E at \in 0..Len(savedData.blocks), kind \in ForeignKinds :
          /\ fileBuffer' = ForeignFile(savedData, at, kind)
          /\ foreignAt' = at
          /\ foreignKind' = kind
    /\ fileKind' = "foreign"
    /\ UNCHANGED <<aseData, savedData, parsed>>
    /\ UNCHANGED codecOthers

\* the file chosen ends early (of another tool's files, those that end with
\* the block the editor did not write)
TruncatedFile ==
    /\ fileKind = "saved" \/ (fileKind = "foreign" /\ foreignAt = Len(savedData.blocks))
    /\ parsed = NotLoaded
    /\ \E n \in 0..(Len(fileBuffer) - 1) : fileBuffer' = SubSeq(fileBuffer, 1, n)
    /\ fileKind' = "truncated"
    /\ UNCHANGED <<aseData, savedData, foreignAt, foreignKind, parsed>>
    /\ UNCHANGED codecOthers

\* the file chosen does not start with "ASEF"
NotAnAseFile ==
    /\ fileKind \in {"saved", "foreign"}
    /\ parsed = NotLoaded
    /\ \E j \in 1..4 : fileBuffer' = [fileBuffer EXCEPT ![j] = 88]     \* 'X'
    /\ fileKind' = "badsig"
    /\ UNCHANGED <<aseData, savedData, foreignAt, foreignKind, parsed>>
    /\ UNCHANGED codecOthers

\* the name of the file chosen
LoadedFileName == "palette.ase"

\* loadFile of a file whose name ends in .ase (any other is refused and
\* nothing changes): state.currentFileName = file.name, then
\* state.aseData = parseASE(buffer), or the error toast; nothing else runs
\* while the file is read
LoadFile ==
    /\ fileKind # "none"
    /\ parsed = NotLoaded
    /\ currentFileName' = LoadedFileName
    /\ parsed' = parseASE(fileBuffer)
    /\ aseData' = IF parsed'.ok THEN parsed'.data ELSE aseData
    /\ IF parsed'.ok
          THEN /\ currentSelection' = -1
               /\ historyStack' = initHistory(parsed'.data).historyStack
               /\ historyIndex' = initHistory(parsed'.data).historyIndex
               /\ onRestore' = "restoreHistoryState"
          ELSE UNCHANGED historyVars
    /\ UNCHANGED <<savedData, fileBuffer, fileKind, foreignAt, foreignKind>>
    /\ lastOp' = [op |-> "loadFile"]
    /\ UNCHANGED <<colorVars, sortVars, tripVars, callVars>>
    /\ UNCHANGED <<viewMode, showContrastOverlay, timerVars, storageVars>>
    /\ UNCHANGED <<deleteConfirm, deleteAllConfirm>>

NextCodec == SaveASE \/ OtherToolFile \/ TruncatedFile \/ NotAnAseFile \/ LoadFile



(***************************************************************************)
(* Properties of the codec                                                 *)
(***************************************************************************)
Kinds(blocks) == [i \in 1..Len(blocks) |-> blocks[i].type]

HasSignature(buf) == Len(buf) >= 4 /\ SubSeq(buf, 1, 4) = SigASEF

\* the file as it was before it was cut short
WrittenFile ==
    IF foreignAt = -1 THEN createASEBuffer(savedData)
    ELSE ForeignFile(savedData, foreignAt, foreignKind)

\* the offset just behind the last byte parseASE reads of a file it accepts
ReadExtent(buf) == ParseBlocks(buf, 12, getUint32(buf, 8), <<>>, 12).read

InsertAt(seq, at, x) == SubSeq(seq, 1, at) \o <<x>> \o SubSeq(seq, at + 1, Len(seq))

RemoveAt(seq, i) == SubSeq(seq, 1, i - 1) \o SubSeq(seq, i + 1, Len(seq))

KnownTags == {TagRGB, TagCMYK, TagLAB, TagGray}

\* C1: parseASE(createASEBuffer(d)) succeeds and has the blocks of d, kind by
\* kind in the same order (the names may be empty, the groups unbalanced).
C1_RoundTripKeepsKinds ==
    (fileKind = "saved" /\ parsed # NotLoaded) =>
        /\ parsed.ok
        /\ Kinds(parsed.data.blocks) = Kinds(savedData.blocks)

\* C2: a colour block with a known tag, that tag's channel count and colorType
\* 0, 1 or 2, and a named group block, come back from
\* parseASE(createASEBuffer(d)) at the same position with the same name, model,
\* colorType and channel values.
C2_RoundTripKeepsFields ==
    (fileKind = "saved" /\ parsed # NotLoaded /\ parsed.ok
        /\ Len(parsed.data.blocks) = Len(savedData.blocks)) =>
        \A i \in 1..Len(savedData.blocks) :
            LET b == savedData.blocks[i]
                p == parsed.data.blocks[i]
            IN  /\ (b.type = "color" /\ b.model \in KnownTags
                      /\ Len(b.values) = NumChannels(b.model)
                      /\ b.colorType \in {0, 1, 2}) => p = b
                /\ (b.type = "groupStart" /\ b.name # <<>>) => p = b

\* C3: parseASE throws, and loadFile keeps the document it had, for every
\* buffer whose first four bytes are not "ASEF".
C3_BadSignatureFails ==
    (parsed # NotLoaded /\ ~HasSignature(fileBuffer)) =>
        /\ ~parsed.ok
        /\ aseData = savedData

C3_Witness ==
    /\ fileKind = "badsig"
    /\ Len(fileBuffer) > 18
    /\ parsed = SignatureError

\* C4: the cursor goes to the declared end of each block, so that a block of
\* an unknown type adds no entry, a colour with an unknown tag adds a colour
\* without channels, a group end with a payload adds a group end, and the
\* other blocks are decoded as they are without that block.
C4_SkipsByDeclaredLength ==
    (fileKind = "foreign" /\ parsed # NotLoaded) =>
        LET clean == parseASE(createASEBuffer(savedData))
        IN  IF ~clean.ok THEN ~parsed.ok
            ELSE /\ parsed.ok
                 /\ parsed.data.version = clean.data.version
                 /\ IF foreignKind = "unknownType"
                        THEN parsed.data.blocks = clean.data.blocks
                    ELSE IF foreignKind = "longGroupEnd"
                        THEN parsed.data.blocks =
                                InsertAt(clean.data.blocks, foreignAt, [type |-> "groupEnd"])
                    ELSE /\ Len(parsed.data.blocks) = Len(clean.data.blocks) + 1
                         /\ RemoveAt(parsed.data.blocks, foreignAt + 1) = clean.data.blocks
                         /\ LET odd == parsed.data.blocks[foreignAt + 1]
                            IN  /\ odd.type = "color"
                                /\ odd.name = UnknownModelColor.name
                                /\ odd.model = TagHSB
                                /\ odd.values = <<>>

C4_Witness ==
    /\ fileKind = "foreign"
    /\ foreignKind = "unknownModel"
    /\ parsed # NotLoaded /\ parsed.ok
    /\ foreignAt = 0
    /\ Len(parsed.data.blocks) = 3
    /\ parsed.data.blocks[1].values = <<>>
    /\ parsed.data.blocks[2].type = "color" /\ Len(parsed.data.blocks[2].values) = 4

\* C5 as claimed: a file with the signature that ends before the end of what
\* its header and block headers declare is refused.
C5_TruncatedAlwaysFails ==
    (fileKind = "truncated" /\ parsed # NotLoaded /\ HasSignature(fileBuffer)) => ~parsed.ok

\* C5 as amended: a file that ends before the last byte parseASE reads of the
\* whole file is refused; a file that lacks only bytes parseASE never reads
\* (the null terminator of a final group name, the payload of a final block
\* behind its parsed fields) gives the document of the whole file.  No
\* document is partial or zero-filled.
C5_TruncatedFailsOrComplete ==
    (fileKind = "truncated" /\ parsed # NotLoaded) =>
        LET full == parseASE(WrittenFile)
        IN  /\ parsed.ok => (full.ok /\ parsed.data = full.data)
            /\ (full.ok /\ Len(fileBuffer) < ReadExtent(WrittenFile)) => ~parsed.ok
            /\ (full.ok /\ Len(fileBuffer) >= ReadExtent(WrittenFile)) => parsed.ok

C5_Witness ==
    /\ fileKind = "truncated"
    /\ parsed = RangeError
    /\ HasSignature(fileBuffer)
    /\ Len(savedData.blocks) = 2
    /\ Len(fileBuffer) = Len(WrittenFile) - 1
    /\ parseASE(WrittenFile).ok


(***************************************************************************)
(* Fixed-point arithmetic                                                  *)
(***************************************************************************)
\* Math.round(a / b), b > 0
RoundDiv(a, b) == (2 * a + b) \div (2 * b)

\* a * b of two numbers in 1/Scale units
MulFix(a, b) == RoundDiv(a * b, Scale)

Min(a, b) == IF a < b THEN a ELSE b
Max(a, b) == IF a > b THEN a ELSE b

\* Math.min(1, Math.max(0, x))
Clamp01(x) == Min(Scale, Max(0, x))

(***************************************************************************)
(* JavaScript strings                                                      *)
(***************************************************************************)
RECURSIVE TrimLeft(_)
TrimLeft(str) == IF str # <<>> /\ Head(str) = 32 THEN TrimLeft(Tail(str)) ELSE str

RECURSIVE TrimRight(_)
TrimRight(str) ==
    IF str # <<>> /\ str[Len(str)] = 32 THEN TrimRight(SubSeq(str, 1, Len(str) - 1)) ELSE str

Trim(str) == TrimRight(TrimLeft(str))

ToLowerCase(str) == [i \in 1..Len(str) |-> IF str[i] \in 65..90 THEN str[i] + 32 ELSE str[i]]

StrRGB  == <<82, 71, 66>>          \* "RGB"
StrCMYK == <<67, 77, 89, 75>>      \* "CMYK"
StrLAB  == <<76, 65, 66>>          \* "LAB"
StrGray == <<71, 114, 97, 121>>    \* "Gray"

(***************************************************************************)
(* pantone-library: the reference table.  One entry of the main table and  *)
(* one manual override that the main table does not hold.                  *)
(***************************************************************************)
NoEntry == [found |-> FALSE]

\* "p": C 0 M 80 Y 80 K 0, R 255 G 51 B 51, Hex "#EE3333"
PantoneEntries ==
    [n \in {<<112>>} |->
        [found |-> TRUE, C |-> 0, M |-> 80, Y |-> 80, K |-> 0,
         R |-> 255, G |-> 51, B |-> 51,
         Hex |-> <<35, 69, 69, 51, 51, 51, 51>>]]

\* "n": "#39FF14"
PantoneOverrides == [n \in {<<110>>} |-> <<35, 51, 57, 70, 70, 49, 52>>]

NormalizeName(name) == ToLowerCase(Trim(name))

getOfficialEntry(name) ==
    IF NormalizeName(name) \in DOMAIN PantoneEntries
        THEN PantoneEntries[NormalizeName(name)] ELSE NoEntry

\* <<>> stands for undefined
getOfficialHex(name) ==
    IF NormalizeName(name) \in DOMAIN PantoneOverrides THEN PantoneOverrides[NormalizeName(name)]
    ELSE IF NormalizeName(name) \in DOMAIN PantoneEntries THEN PantoneEntries[NormalizeName(name)].Hex
    ELSE <<>>

(***************************************************************************)
(* color-engine                                                            *)
(***************************************************************************)
\* Math.round(255 * (1 - c) * (1 - k)), a byte count (not clamped)
SimpleChannel(c, k) == RoundDiv(255 * MulFix(Scale - c, Scale - k), Scale)

simpleCmykToRgb(c, m, y, k) == <<SimpleChannel(c, k), SimpleChannel(m, k), SimpleChannel(y, k)>>

\* what _cmsDoTransform does with one pixel: it throws, or leaves three bytes
TransformOutcomes ==
    { [throws |-> TRUE,  rgb |-> <<0, 0, 0>>],
      [throws |-> FALSE, rgb |-> <<0, 0, 0>>],
      [throws |-> FALSE, rgb |-> <<237, 28, 36>>],
      [throws |-> FALSE, rgb |-> <<255, 255, 255>>] }

\* the negation of the fallback test of cmykToProfileRGB
EngineUsable(ready, transform) == ready /\ transform # 0

TransformFailed_Mutant(c, m, y, k) == <<-1, -1, -1>>

\* the catch block of cmykToProfileRGB
TransformFailed(c, m, y, k) == simpleCmykToRgb(c, m, y, k)

\* ready, transform: isReady and cmykTransform at the call; t: the transform's outcome
cmykToProfileRGB(c, m, y, k, ready, transform, t) ==
    IF ~EngineUsable(ready, transform) THEN simpleCmykToRgb(c, m, y, k)
    ELSE IF t.throws THEN TransformFailed(c, m, y, k)
    ELSE t.rgb

(***************************************************************************)
(* color-utils                                                             *)
(***************************************************************************)
HexDigit(c) ==
    IF c \in 48..57 THEN c - 48
    ELSE IF c \in 65..70 THEN c - 55
    ELSE IF c \in 97..102 THEN c - 87
    ELSE -1

hexToRgb(hex) ==
    LET h == IF hex # <<>> /\ Head(hex) = 35 THEN Tail(hex) ELSE hex
    IN  IF Len(h) # 6 \/ \E i \in 1..6 : HexDigit(h[i]) = -1 THEN <<0, 0, 0>>
        ELSE [i \in 1..3 |->
                RoundDiv((HexDigit(h[2 * i - 1]) * 16 + HexDigit(h[2 * i])) * Scale, 255)]

\* (block.model || 'RGB').trim()
ModelName(b) == Trim(IF Has(b, "model") /\ b.model # <<>> THEN b.model ELSE StrRGB)

\* block.values || []
ValuesOf(b) == IF Has(b, "values") THEN b.values ELSE <<>>

\* v[i] || 0
Chan(v, i) == IF i <= Len(v) THEN v[i] ELSE 0

TOLERANCE == Scale \div 100

\* Math.abs(values[i] - ref) < tolerance; false when values[i] is undefined
Near(values, i, ref, tolerance) == i <= Len(values) /\ Abs(values[i] - ref) < tolerance

isStandardPantone_Mutant(b, entry) ==
    LET values == ValuesOf(b)
        model  == ModelName(b)
        old    == (15 * Scale) \div 100
    IN  IF model = StrCMYK THEN
            /\ Near(values, 1, entry.C * (Scale \div 100), old)
            /\ Near(values, 2, entry.M * (Scale \div 100), old)
            /\ Near(values, 3, entry.Y * (Scale \div 100), old)
            /\ Near(values, 4, entry.K * (Scale \div 100), old)
        ELSE IF model = StrRGB THEN
            /\ Near(values, 1, RoundDiv(entry.R * Scale, 255), old)
            /\ Near(values, 2, RoundDiv(entry.G * Scale, 255), old)
            /\ Near(values, 3, RoundDiv(entry.B * Scale, 255), old)
        ELSE TRUE

isStandardPantone(b, entry) ==
    LET values == ValuesOf(b)
        model  == ModelName(b)
    IN  IF model = StrCMYK THEN
            /\ Near(values, 1, entry.C * (Scale \div 100), TOLERANCE)
            /\ Near(values, 2, entry.M * (Scale \div 100), TOLERANCE)
            /\ Near(values, 3, entry.Y * (Scale \div 100), TOLERANCE)
            /\ Near(values, 4, entry.K * (Scale \div 100), TOLERANCE)
        ELSE IF model = StrRGB THEN
            /\ Near(values, 1, RoundDiv(entry.R * Scale, 255), TOLERANCE)
            /\ Near(values, 2, RoundDiv(entry.G * Scale, 255), TOLERANCE)
            /\ Near(values, 3, RoundDiv(entry.B * Scale, 255), TOLERANCE)
        ELSE TRUE

isAuthoritative_Mutant(b) == NameTruthy(b) /\ getOfficialEntry(b.name).found

isAuthoritative(b) ==
    IF ~NameTruthy(b) THEN FALSE
    ELSE IF getOfficialEntry(b.name).found THEN isStandardPantone(b, getOfficialEntry(b.name))
    ELSE getOfficialHex(b.name) # <<>>


\* x^3
Cube(x) == MulFix(MulFix(x, x), x)

\* (t^3 > epsilon ? t^3 : (116 t - 16) / kappa), epsilon = 0.008856, kappa = 903.3
LabInverse(t) ==
    IF Cube(t) * 100 > 8856 THEN Cube(t)
    ELSE RoundDiv((116 * t - 16 * Scale) * 10, 9033)

Dot3(c, v) == RoundDiv(c[1] * v[1] + c[2] * v[2] + c[3] * v[3], Scale)

\* the curve 1.055 v^(1/2.4) - 0.055 at sixteen points, for Math.pow
GammaKnots ==
    << <<31, 404>>, <<100, 999>>, <<200, 1517>>, <<400, 2209>>, <<700, 2934>>,
       <<1000, 3492>>, <<1500, 4236>>, <<2000, 4845>>, <<3000, 5838>>, <<4000, 6652>>,
       <<5000, 7354>>, <<6000, 7977>>, <<7000, 8543>>, <<8000, 9063>>, <<9000, 9547>>,
       <<10000, 10000>> >>

\* the segment of the curve that holds v (the last one beyond 1)
GammaSegment(v) ==
    IF v >= Scale THEN Len(GammaKnots) - 1
    ELSE CHOOSE i \in 1..(Len(GammaKnots) - 1) :
            GammaKnots[i][1] <= v /\ v <= GammaKnots[i + 1][1]
               /\ \A j \in 1..(i - 1) : ~(GammaKnots[j][1] <= v /\ v <= GammaKnots[j + 1][1])

\* v <= 0.0031308 ? 12.92 * v : 1.055 * Math.pow(v, 1 / 2.4) - 0.055
toSrgb(v) ==
    IF v * 100 <= 3131 THEN RoundDiv(1292 * v, 100)
    ELSE LET i  == GammaSegment(v)
             x0 == GammaKnots[i][1]
             y0 == GammaKnots[i][2]
             x1 == GammaKnots[i + 1][1]
             y1 == GammaKnots[i + 1][2]
         IN  y0 + RoundDiv((y1 - y0) * (v - x0), x1 - x0)

labToRgbValues(L, a, b) ==
    LET validL == IF L * 100 <= 105 * Scale /\ L > 0 THEN L * 100 ELSE L
        y0   == RoundDiv(validL + 16 * Scale, 116)
        x0   == RoundDiv(a, 500) + y0
        z0   == y0 - RoundDiv(b, 200)
        \* times the D50 white, divided by 100
        X50  == MulFix(LabInverse(x0), 9642)
        Y50  == LabInverse(y0)
        Z50  == MulFix(LabInverse(z0), 8252)
        d50  == <<X50, Y50, Z50>>
        \* Bradford adaptation to D65
        x    == Dot3(<<9556, -230, 632>>, d50)
        y    == Dot3(<<-283, 10099, 210>>, d50)
        z    == Dot3(<<123, -205, 13299>>, d50)
        d65  == <<x, y, z>>
        rLin == Dot3(<<32405, -15371, -4985>>, d65)
        gLin == Dot3(<<-9693, 18760, 416>>, d65)
        bLin == Dot3(<<556, -2040, 10572>>, d65)
    IN  <<Clamp01(toSrgb(rLin)), Clamp01(toSrgb(gLin)), Clamp01(toSrgb(bLin))>>

\* the authority check of blockToRgb gives a colour
AuthorityHex(b) ==
    IF ~NameTruthy(b) THEN <<>>
    ELSE IF getOfficialEntry(b.name).found
        THEN (IF isStandardPantone(b, getOfficialEntry(b.name))
                THEN getOfficialEntry(b.name).Hex ELSE <<>>)
    ELSE getOfficialHex(b.name)

\* r255 / 255
FromByte(x) == RoundDiv(x * Scale, 255)

\* blockToRgb reaches cmykToProfileRGB
CallsEngine(b) == ValuesOf(b) # <<>> /\ AuthorityHex(b) = <<>> /\ ModelName(b) = StrCMYK

blockToRgb(b, ready, transform, t) ==
    LET m == ModelName(b)
        v == ValuesOf(b)
    IN  IF Len(v) = 0 THEN <<0, 0, 0>>
        ELSE IF AuthorityHex(b) # <<>> THEN hexToRgb(AuthorityHex(b))
        ELSE IF m = StrCMYK THEN
            LET out == cmykToProfileRGB(Chan(v, 1), Chan(v, 2), Chan(v, 3), Chan(v, 4),
                                        ready, transform, t)
            IN  <<FromByte(out[1]), FromByte(out[2]), FromByte(out[3])>>
        ELSE IF m = StrLAB THEN labToRgbValues(Chan(v, 1), Chan(v, 2), Chan(v, 3))
        ELSE IF m = StrRGB THEN <<Chan(v, 1), Chan(v, 2), Chan(v, 3)>>
        ELSE IF m = StrGray THEN <<Chan(v, 1), Chan(v, 1), Chan(v, 1)>>
        ELSE <<0, 0, 0>>

\* the numbers of the rgb(...) string: Math.round(clamped * 255)
getCSSColor(b, ready, transform, t) ==
    LET rgb == blockToRgb(b, ready, transform, t)
    IN  [i \in 1..3 |-> RoundDiv(Min(Scale, Max(0, rgb[i])) * 255, Scale)]


(***************************************************************************)
(* The colour pipeline as the editor runs it: initColorEngine proceeds     *)
(* from await to await while the interface already converts blocks.        *)
(***************************************************************************)
\* names: "P", " p ", "n", "x", ""
ColorNames == { <<80>>, <<32, 112, 32>>, <<110>>, <<120>>, <<>> }

\* model tag and stored values
ColorValues ==
    { <<TagRGB, <<10000, 2000, 2000>> >>,       \* the reference colour
      <<TagRGB, <<10000, 2099, 2000>> >>,       \* G off by 0.0099
      <<TagRGB, <<10000, 2100, 2000>> >>,       \* G off by 0.01
      <<TagRGB, <<10000, 2500, 2000>> >>,       \* G off by 0.05
      <<TagRGB, <<15000, -2000, 5000>> >>,      \* not normalised
      <<TagCMYK, <<0, 8000, 8000, 0>> >>,       \* the reference colour
      <<TagCMYK, <<100, 8000, 8000, 0>> >>,     \* C off by 0.01
      <<TagCMYK, <<5000, 0, 0, 2500>> >>,
      <<TagCMYK, <<0, 0, 0, -2500>> >>,         \* not normalised
      <<TagCMYK, <<0, 8000, 8000>> >>,          \* K missing
      <<TagLAB, <<6500, -125000, 1270000>> >>,  \* outside the sRGB gamut
      <<TagLAB, <<500000, 0, 0>> >>,
      <<TagGray, <<5000>> >>,
      <<TagGray, <<20000>> >>,                  \* not normalised
      <<TagHSB, <<>> >>,                        \* as parseASE leaves an unknown tag
      <<TagHSB, <<1000, 2000, 3000>> >> }

ColorBlocks ==
    { [type |-> "color", name |-> n, model |-> mv[1], values |-> mv[2], colorType |-> 2] :
        n \in ColorNames, mv \in ColorValues }

InitColor ==
    /\ ColorIdle
    /\ CodecIdle
    /\ SortIdle
    /\ TripIdle
    /\ HistoryIdle
    /\ StorageIdle
    /\ EditIdle

convVars == <<block, rgbOut, cssOut, authOut, cmykCall>>

\* initColorEngine is called: it runs up to `await instantiate(...)`
InitColorEngine ==
    /\ enginePc = "idle"
    /\ enginePc' = "instantiate"
    /\ UNCHANGED <<Module, cmykData, cmykTransform, isReady, convVars>>
    /\ UNCHANGED colorOthers

\* instantiate resolves: on to the first fetch
InstantiateResolves ==
    /\ enginePc = "instantiate"
    /\ Module' = "loaded"
    /\ enginePc' = "fetchCmyk"
    /\ UNCHANGED <<cmykData, cmykTransform, isReady, convVars>>
    /\ UNCHANGED colorOthers

\* instantiate rejects: the catch block logs and initColorEngine returns
InstantiateRejects ==
    /\ enginePc = "instantiate"
    /\ enginePc' = "failed"
    /\ UNCHANGED <<Module, cmykData, cmykTransform, isReady, convVars>>
    /\ UNCHANGED colorOthers

\* fetchProfileData(cmykUrl) resolves, with the profile or with null
FetchCmykResolves ==
    /\ enginePc = "fetchCmyk"
    /\ \E d \in {"null", "data"} : cmykData' = d
    /\ enginePc' = "fetchSrgb"
    /\ UNCHANGED <<Module, cmykTransform, isReady, convVars>>
    /\ UNCHANGED colorOthers

\* fetchProfileData(srgbUrl) resolves and the source profile is missing: return
ProfileMissing ==
    /\ enginePc = "fetchSrgb"
    /\ cmykData = "null"
    /\ enginePc' = "returned"
    /\ UNCHANGED <<Module, cmykData, cmykTransform, isReady, convVars>>
    /\ UNCHANGED colorOthers

\* ... a profile handle is 0, or a call into the module throws: catch
SetupThrows ==
    /\ enginePc = "fetchSrgb"
    /\ cmykData = "data"
    /\ enginePc' = "failed"
    /\ UNCHANGED <<Module, cmykData, cmykTransform, isReady, convVars>>
    /\ UNCHANGED colorOthers

\* ... both handles exist: createTransform returns a handle or 0
CreateTransform ==
    /\ enginePc = "fetchSrgb"
    /\ cmykData = "data"
    /\ \E handle \in {0, 1} :
          /\ cmykTransform' = handle
          /\ isReady' = IF handle # 0 THEN TRUE ELSE isReady
    /\ enginePc' = "returned"
    /\ UNCHANGED <<Module, cmykData, convVars>>
    /\ UNCHANGED colorOthers

\* the interface converts a block: blockToRgb, getCSSColor, isAuthoritative
ConvertBlock ==
    /\ \E b \in ColorBlocks, t \in TransformOutcomes :
          LET v == ValuesOf(b)
          IN  /\ block' = b
              /\ rgbOut' = blockToRgb(b, isReady, cmykTransform, t)
              /\ cssOut' = getCSSColor(b, isReady, cmykTransform, t)
              /\ authOut' = isAuthoritative(b)
              /\ cmykCall' =
                    IF CallsEngine(b)
                    THEN [made |-> TRUE,
                          usable |-> isReady /\ cmykTransform # 0,
                          threw |-> isReady /\ cmykTransform # 0 /\ t.throws,
                          args |-> <<Chan(v, 1), Chan(v, 2), Chan(v, 3), Chan(v, 4)>>,
                          out |-> cmykToProfileRGB(Chan(v, 1), Chan(v, 2), Chan(v, 3), Chan(v, 4),
                                                   isReady, cmykTransform, t)]
                    ELSE NoCall
    /\ UNCHANGED <<enginePc, Module, cmykData, cmykTransform, isReady>>
    /\ UNCHANGED colorOthers

NextColor ==
    \/ InitColorEngine \/ InstantiateResolves \/ InstantiateRejects
    \/ FetchCmykResolves \/ ProfileMissing \/ SetupThrows \/ CreateTransform
    \/ ConvertBlock

(***************************************************************************)
(* Properties of the colour pipeline                                       *)
(***************************************************************************)
Converted == block # NoBlock

InUnit(x) == 0 <= x /\ x <= Scale

\* C6: for every colour block (any model, any stored values, any name, engine
\* ready or not) each of the three components blockToRgb returns lies in [0, 1]
C6_ResultInUnitCube == Converted => \A i \in 1..3 : InUnit(rgbOut[i])

\* the reference entry of the block's name
EntryOf(b) == getOfficialEntry(b.name)

\* the reference's values in the block's model, normalised
ReferenceValues(b) ==
    IF ModelName(b) = StrCMYK
        THEN <<EntryOf(b).C * 100, EntryOf(b).M * 100, EntryOf(b).Y * 100, EntryOf(b).K * 100>>
        ELSE <<RoundDiv(EntryOf(b).R * Scale, 255), RoundDiv(EntryOf(b).G * Scale, 255),
               RoundDiv(EntryOf(b).B * Scale, 255)>>

\* the largest deviation of a channel from the reference, in 1/Scale units
\* (a missing channel counts as a deviation of 1)
RECURSIVE MaxDeviation(_, _, _)
MaxDeviation(values, ref, i) ==
    IF i > Len(ref) THEN 0
    ELSE Max(IF i <= Len(values) THEN Abs(values[i] - ref[i]) ELSE Scale,
             MaxDeviation(values, ref, i + 1))

Deviation(b) == MaxDeviation(ValuesOf(b), ReferenceValues(b), 1)

Compared(b) == ModelName(b) \in {StrRGB, StrCMYK}

NameMatches(b) == NameTruthy(b) /\ EntryOf(b).found

Canonical(b) == hexToRgb(EntryOf(b).Hex)

\* the result of the model's own conversion, as the call recorded it
OwnConversion(b) ==
    IF ModelName(b) = StrCMYK
        THEN /\ cmykCall.made
             /\ rgbOut = <<FromByte(cmykCall.out[1]), FromByte(cmykCall.out[2]),
                           FromByte(cmykCall.out[3])>>
        ELSE rgbOut = <<Chan(ValuesOf(b), 1), Chan(ValuesOf(b), 2), Chan(ValuesOf(b), 3)>>

\* C7 as stated: for a name that matches a reference entry the canonical colour
\* is returned if the model is Lab/Gray or every RGB/CMYK channel is within 0.01
\* of the reference; if some channel deviates by more than 0.01 the result is
\* the model's own conversion of the stored values
C7_OverrideWithinTolerance ==
    (Converted /\ NameMatches(block)) =>
        /\ (ModelName(block) \in {StrLAB, StrGray}
              \/ (Compared(block) /\ Deviation(block) <= Scale \div 100))
            => rgbOut = Canonical(block)
        /\ (Compared(block) /\ Deviation(block) > Scale \div 100) => OwnConversion(block)

\* C7 amended: with stored values present, the canonical colour is returned if
\* the model is Lab/Gray or every RGB/CMYK channel deviates by strictly less
\* than 0.01; if some channel deviates by 0.01 or more the result is the
\* model's own conversion of the stored values
C7_OverrideStrictlyWithinTolerance ==
    (Converted /\ NameMatches(block) /\ ValuesOf(block) # <<>>) =>
        /\ (ModelName(block) \in {StrLAB, StrGray}
              \/ (Compared(block) /\ Deviation(block) < Scale \div 100))
            => rgbOut = Canonical(block)
        /\ (Compared(block) /\ Deviation(block) >= Scale \div 100) => OwnConversion(block)

\* a matching name whose CMYK values were edited away: the engine converts them
C7_Witness ==
    /\ Converted /\ NameMatches(block)
    /\ ModelName(block) = StrCMYK
    /\ Deviation(block) >= Scale \div 100
    /\ cmykCall.made
    /\ rgbOut # Canonical(block)

\* C8: cmykToProfileRGB always returns a colour; whenever the engine is not
\* ready, or the transform call throws, the colour is the analytic fallback
\* 255(1-c)(1-k), 255(1-m)(1-k), 255(1-y)(1-k) (rounded to a whole number);
\* isReady holds only where a transform handle exists
C8_FallbackWhenNotReady ==
    /\ isReady => cmykTransform # 0
    /\ cmykCall.made =>
        /\ \A i \in 1..3 : cmykCall.out[i] >= 0
        /\ (~cmykCall.usable \/ cmykCall.threw) =>
              \A i \in 1..3 :
                 Abs(cmykCall.out[i] * Scale
                       - 255 * MulFix(Scale - cmykCall.args[i], Scale - cmykCall.args[4]))
                    <= Scale \div 2

\* the transform exists and throws on this colour
C8_Witness == cmykCall.made /\ cmykCall.usable /\ cmykCall.threw /\ isReady

\* C9 as stated: isAuthoritative is true iff the lookup of the name succeeds
\* and the model is Lab/Gray or every channel is within 0.01 of the reference
C9_AuthoritativeIffWithinTolerance ==
    Converted =>
        (authOut <=> /\ NameMatches(block)
                     /\ \/ ModelName(block) \in {StrLAB, StrGray}
                        \/ Deviation(block) <= Scale \div 100)

\* C9 amended: for the models RGB, CMYK, LAB and Gray, isAuthoritative is true
\* iff the name is not empty and either its lookup succeeds and the model is
\* Lab/Gray or every channel deviates by strictly less than 0.01, or its
\* lookup fails and the library has an override colour for the name
C9_AuthoritativeIffStrictOrOverride ==
    (Converted /\ ModelName(block) \in {StrRGB, StrCMYK, StrLAB, StrGray}) =>
        (authOut <=> /\ NameTruthy(block)
                     /\ \/ /\ EntryOf(block).found
                           /\ \/ ModelName(block) \in {StrLAB, StrGray}
                              \/ Deviation(block) < Scale \div 100
                        \/ /\ ~EntryOf(block).found
                           /\ getOfficialHex(block.name) # <<>>)

\* a matching name with RGB values just inside the tolerance
C9_Witness ==
    /\ Converted /\ NameMatches(block)
    /\ ModelName(block) = StrRGB
    /\ Deviation(block) > 0
    /\ authOut

(***************************************************************************)
(* sortBlocksHierarchically                                                *)
(***************************************************************************)
\* primary collation key of a code unit: letters without their case
CollationKey(c) == IF c \in 65..90 THEN c + 32 ELSE c

\* sign of the first difference under key
RECURSIVE CompareBy(_, _, _)
CompareBy(a, b, i) ==
    IF i > Len(a) /\ i > Len(b) THEN 0
    ELSE IF i > Len(a) THEN -1
    ELSE IF i > Len(b) THEN 1
    ELSE IF CollationKey(a[i]) < CollationKey(b[i]) THEN -1
    ELSE IF CollationKey(a[i]) > CollationKey(b[i]) THEN 1
    ELSE CompareBy(a, b, i + 1)

\* the first position where the case differs: lower case sorts first
RECURSIVE CompareCase(_, _, _)
CompareCase(a, b, i) ==
    IF i > Len(a) THEN 0
    ELSE IF a[i] = b[i] THEN CompareCase(a, b, i + 1)
    ELSE IF a[i] > b[i] THEN -1
    ELSE 1

\* a.localeCompare(b) on letters, digits and spaces
localeCompare(a, b) == IF CompareBy(a, b, 1) # 0 THEN CompareBy(a, b, 1) ELSE CompareCase(a, b, 1)

\* block.name || ''
NameOrEmpty(b) == IF Has(b, "name") THEN b.name ELSE <<>>

Max3(a, b, c) == Max(a, Max(b, c))
Min3(a, b, c) == Min(a, Min(b, c))

\* the local helper getHSL of compareColors
getHSL(r, g, bVal) ==
    LET max == Max3(r, g, bVal)
        min == Min3(r, g, bVal)
        l   == (max + min) \div 2
        d   == max - min
        s   == IF max + min > Scale THEN RoundDiv(d * Scale, 2 * Scale - max - min)
               ELSE RoundDiv(d * Scale, max + min)
        h   == IF max = r THEN RoundDiv((g - bVal) * Scale, d) + (IF g < bVal THEN 6 * Scale ELSE 0)
               ELSE IF max = g THEN RoundDiv((bVal - r) * Scale, d) + 2 * Scale
               ELSE RoundDiv((r - g) * Scale, d) + 4 * Scale
    IN  IF max = min THEN <<0, 0, l>> ELSE <<RoundDiv(h, 6), s, l>>

Criteria == {"name", "hue", "saturation", "lightness", "other"}

\* any outcome of the transform: blockToRgb does not reach it while isReady is false
AnyOutcome == CHOOSE t \in TransformOutcomes : TRUE

HSLOf(b) ==
    LET rgb == blockToRgb(b, isReady, cmykTransform, AnyOutcome)
    IN  getHSL(rgb[1], rgb[2], rgb[3])

compareColors(a, b, criterion) ==
    IF criterion = "name" THEN localeCompare(NameOrEmpty(a), NameOrEmpty(b))
    ELSE IF criterion = "hue" THEN HSLOf(a)[1] - HSLOf(b)[1]
    ELSE IF criterion = "saturation" THEN HSLOf(b)[2] - HSLOf(a)[2]
    ELSE IF criterion = "lightness" THEN HSLOf(a)[3] - HSLOf(b)[3]
    ELSE 0

\* the comparator sortTree hands to nodes.sort
compareNodes(a, b, criterion) ==
    LET isGroupA == a.type = "groupStart"
        isGroupB == b.type = "groupStart"
    IN  IF isGroupA /\ ~isGroupB THEN -1
        ELSE IF ~isGroupA /\ isGroupB THEN 1
        ELSE IF isGroupA /\ isGroupB THEN localeCompare(NameOrEmpty(a), NameOrEmpty(b))
        ELSE compareColors(a, b, criterion)

\* The tree built from blocks. A node is the position of its block in blocks,
\* 0 is the dummy root; parent[i] = -1 while block i is not a node (not
\* yet met, or a groupEnd kept as some node's endBlock); endBlock[n] = 0 while
\* node n has none. Children are pushed in the order of the scan, so the
\* children of a node are its positions in increasing order.
EmptyTree(blcks) ==
    [stack    |-> <<0>>,
     parent   |-> [i \in 1..Len(blcks) |-> -1],
     endBlock |-> [n \in 0..Len(blcks) |-> 0]]

\* parent.children.push({ block: b, children: [] })
PushLeaf(tree, i, parent) == [tree EXCEPT !.parent[i] = parent]

OrphanGroupEnd_Mutant(tree, i, parent) == tree

OrphanGroupEnd_AsEndBlock(tree, i, parent) == [tree EXCEPT !.endBlock[0] = i]

\* a groupEnd met while only the root is on the stack
OrphanGroupEnd(tree, i, parent) == PushLeaf(tree, i, parent)

\* one turn of the loop over blocks
ScanBlock(tree, blcks, i) ==
    LET parent == tree.stack[Len(tree.stack)]
    IN  IF blcks[i].type = "groupStart" THEN
            [tree EXCEPT !.parent[i] = parent, !.stack = Append(@, i)]
        ELSE IF blcks[i].type = "groupEnd" THEN
            IF Len(tree.stack) > 1 THEN
                [tree EXCEPT !.endBlock[parent] = i,
                             !.stack = SubSeq(@, 1, Len(@) - 1)]
            ELSE OrphanGroupEnd(tree, i, parent)
        ELSE PushLeaf(tree, i, parent)

RECURSIVE ScanBlocks(_, _, _)
ScanBlocks(tree, blcks, i) ==
    IF i > Len(blcks) THEN tree ELSE ScanBlocks(ScanBlock(tree, blcks, i), blcks, i + 1)

BuildTree(blcks) == ScanBlocks(EmptyTree(blcks), blcks, 1)

\* node.children before the sort
RECURSIVE ChildrenFrom(_, _, _)
ChildrenFrom(tree, n, i) ==
    IF i > Len(tree.parent) THEN <<>>
    ELSE (IF tree.parent[i] = n THEN <<i>> ELSE <<>>) \o ChildrenFrom(tree, n, i + 1)

Children(tree, n) == ChildrenFrom(tree, n, 1)

\* Array.prototype.sort is stable: x goes behind every element that does not
\* compare greater than it
RECURSIVE InsertSorted(_, _, _, _)
InsertSorted(nodes, x, blcks, criterion) ==
    IF nodes = <<>> THEN <<x>>
    ELSE IF compareNodes(blcks[nodes[Len(nodes)]], blcks[x], criterion) <= 0 THEN Append(nodes, x)
    ELSE Append(InsertSorted(SubSeq(nodes, 1, Len(nodes) - 1), x, blcks, criterion),
                nodes[Len(nodes)])

RECURSIVE SortNodes(_, _, _)
SortNodes(nodes, blcks, criterion) ==
    IF nodes = <<>> THEN <<>>
    ELSE InsertSorted(SortNodes(SubSeq(nodes, 1, Len(nodes) - 1), blcks, criterion),
                      nodes[Len(nodes)], blcks, criterion)

\* n.children after sortTree
SortedChildren(tree, n, blcks, criterion) == SortNodes(Children(tree, n), blcks, criterion)

\* flatten: the node's block, its children, its endBlock
RECURSIVE FlattenNode(_, _, _, _)
RECURSIVE FlattenNodes(_, _, _, _)
FlattenNode_Mutant(tree, n, blcks, criterion) ==
    (IF n # 0 THEN <<blcks[n]>> ELSE <<>>)
        \o (IF tree.endBlock[n] # 0 THEN <<blcks[tree.endBlock[n]]>> ELSE <<>>)
        \o FlattenNodes(tree, SortedChildren(tree, n, blcks, criterion), blcks, criterion)

FlattenNode(tree, n, blcks, criterion) ==
    (IF n # 0 THEN <<blcks[n]>> ELSE <<>>)
        \o FlattenNodes(tree, SortedChildren(tree, n, blcks, criterion), blcks, criterion)
        \o (IF tree.endBlock[n] # 0 THEN <<blcks[tree.endBlock[n]]>> ELSE <<>>)

FlattenNodes(tree, nodes, blcks, criterion) ==
    IF nodes = <<>> THEN <<>>
    ELSE FlattenNode(tree, Head(nodes), blcks, criterion)
            \o FlattenNodes(tree, Tail(nodes), blcks, criterion)

sortBlocksHierarchically(blcks, criterion) == FlattenNode(BuildTree(blcks), 0, blcks, criterion)

(***************************************************************************)
(* The sort applied to the block lists of a palette. The field id stands   *)
(* for the identity of the block object.                                   *)
(***************************************************************************)
\* names "b", "A", "a"
SortKinds ==
    { [type |-> "groupStart", name |-> <<98>>],
      [type |-> "groupStart", name |-> <<65>>],
      [type |-> "groupEnd"],
      [type |-> "color", name |-> <<98>>, model |-> TagRGB, values |-> <<10000, 2000, 2000>>,
       colorType |-> 2],
      [type |-> "color", name |-> <<65>>, model |-> TagRGB, values |-> <<2000, 5000, 3000>>,
       colorType |-> 2],
      [type |-> "color", name |-> <<97>>, model |-> TagGray, values |-> <<5000>>,
       colorType |-> 2],
      [type |-> "color", name |-> <<>>, model |-> TagCMYK, values |-> <<0, 5000, 10000, 2000>>,
       colorType |-> 2] }

\* the block of kind k that is the object number id
WithId(k, id) == [f \in DOMAIN k \cup {"id"} |-> IF f = "id" THEN id ELSE k[f]]

SortInputs ==
    UNION { { [i \in 1..n |-> WithId(ks[i], i)] : ks \in [1..n -> SortKinds] } :
            n \in 0..MaxSortLen }

InitSort ==
    /\ sortBlocks \in SortInputs
    /\ sortCriterion = ""
    /\ sortResult = <<>>
    /\ CodecIdle
    /\ ColorIdle
    /\ TripIdle
    /\ HistoryIdle
    /\ StorageIdle
    /\ EditIdle

\* sortBlocksHierarchically(blocks, criterion)
SortBlocks ==
    /\ \E c \in Criteria :
          /\ sortCriterion' = c
          /\ sortResult' = sortBlocksHierarchically(sortBlocks, c)
    /\ UNCHANGED sortBlocks
    /\ UNCHANGED sortOthers

NextSort == SortBlocks

(***************************************************************************)
(* rgbToCmyk, and the way back through blockToRgb                          *)
(***************************************************************************)
rgbToCmyk_Mutant(r, g, b) ==
    LET k == Min(Scale - r, Min(Scale - g, Scale - b))
    IN  IF k = Scale THEN <<0, 0, 0, Scale>>
        ELSE <<Scale - r - k, Scale - g - k, Scale - b - k, k>>

rgbToCmyk(r, g, b) ==
    LET c == Scale - r
        m == Scale - g
        y == Scale - b
        k == Min(c, Min(m, y))
    IN  IF k = Scale THEN <<0, 0, 0, Scale>>
        ELSE <<RoundDiv((c - k) * Scale, Scale - k), RoundDiv((m - k) * Scale, Scale - k),
               RoundDiv((y - k) * Scale, Scale - k), k>>

\* the block handleModelChange leaves when the model becomes CMYK (no name)
CmykBlock(values) ==
    [type |-> "color", name |-> <<>>, model |-> StrCMYK, values |-> values, colorType |-> 2]

\* channel values in [0, 1]: the ends, steps of a byte and other fractions
TripLevels == {0, 20, 2500, 3333, 5000, FromByte(128), 8000, Scale}

InitTrip ==
    /\ TripIdle
    /\ CodecIdle
    /\ ColorIdle
    /\ SortIdle
    /\ HistoryIdle
    /\ StorageIdle
    /\ EditIdle

\* rgbToCmyk(r, g, b), then blockToRgb of the CMYK block
RgbToCmykAndBack ==
    /\ \E r \in TripLevels, g \in TripLevels, b \in TripLevels :
          /\ rgbIn' = <<r, g, b>>
          /\ cmykOut' = rgbToCmyk(r, g, b)
          /\ rgbBack' = blockToRgb(CmykBlock(rgbToCmyk(r, g, b)), isReady, cmykTransform,
                                   AnyOutcome)
    /\ UNCHANGED tripOthers

NextTrip == RgbToCmykAndBack

\* C16: for r, g, b in [0, 1] rgbToCmyk returns (0, 0, 0, 1) when
\* k = min(1-r, 1-g, 1-b) is 1, and otherwise c, m, y with c = (1-r-k)/(1-k)
\* and so on; with the ICC engine unavailable blockToRgb of that CMYK colour
\* is the original triplet within 0.001 per channel
C16_CmykRoundTrip ==
    rgbIn # <<>> =>
        LET k == Min3(Scale - rgbIn[1], Scale - rgbIn[2], Scale - rgbIn[3])
        IN  /\ cmykOut[4] = k
            /\ k = Scale => cmykOut = <<0, 0, 0, Scale>>
            /\ k # Scale =>
                  \A i \in 1..3 :
                     2 * Abs(cmykOut[i] * (Scale - k) - (Scale - rgbIn[i] - k) * Scale)
                        <= Scale - k
            /\ ~isReady => \A i \in 1..3 : Abs(rgbBack[i] - rgbIn[i]) <= Scale \div 1000

\* C16 amended: the same, but the way back recovers the triplet within half a
\* step of a byte (0.002 per channel), since the fallback rounds to bytes
C16_CmykRoundTripToByte ==
    rgbIn # <<>> =>
        LET k == Min3(Scale - rgbIn[1], Scale - rgbIn[2], Scale - rgbIn[3])
        IN  /\ cmykOut[4] = k
            /\ k = Scale => cmykOut = <<0, 0, 0, Scale>>
            /\ k # Scale =>
                  \A i \in 1..3 :
                     2 * Abs(cmykOut[i] * (Scale - k) - (Scale - rgbIn[i] - k) * Scale)
                        <= Scale - k
            /\ ~isReady => \A i \in 1..3 : Abs(rgbBack[i] - rgbIn[i]) <= Scale \div 500

\* a colour with black and ink in it that comes back more than 0.001 off
C16_Witness ==
    /\ rgbIn # <<>>
    /\ cmykOut[4] \notin {0, Scale}
    /\ cmykOut[1] > 0
    /\ Abs(rgbBack[1] - rgbIn[1]) > Scale \div 1000

(***************************************************************************)
(* An editing session: the history is initialised with the document the    *)
(* session starts with, then the user adds swatches, undoes and redoes.    *)
(***************************************************************************)
\* createNewSwatch's newBlock
NewColor ==
    [type |-> "color", name |-> <<78, 101, 119, 32, 67, 111, 108, 111, 114>>,
     model |-> TagRGB, values |-> <<Scale, 0, 0>>, colorType |-> 1]

\* the documents a session starts with
StartDocs ==
    { [version |-> <<1, 0>>,
       blocks |-> << [type |-> "color", name |-> <<82>>, model |-> TagRGB,
                      values |-> <<Scale, 2000, 2000>>, colorType |-> 2] >>] }

InitSession ==
    /\ HistoryIdle
    /\ CodecIdle
    /\ ColorIdle
    /\ SortIdle
    /\ TripIdle
    /\ StorageIdle
    /\ EditIdle

\* a call into history.ts is recorded
Called(op, ok) ==
    lastCall' = [op |-> op, ok |-> ok, before |-> aseData,
                 context |-> IF \/ op = "undo" /\ lastCall.op = "pushHistory"
                                \/ op = "redo" /\ lastCall.op = "undo" /\ lastCall.ok
                             THEN lastCall.before ELSE NoData]

\* DOMContentLoaded: the restored or default document, initHistory(state.aseData, ...)
StartSession ==
    /\ onRestore = "null"
    /\ \E data \in StartDocs :
          /\ aseData' = data
          /\ historyStack' = initHistory(data).historyStack
          /\ historyIndex' = initHistory(data).historyIndex
    /\ onRestore' = "restoreHistoryState"
    /\ Called("initHistory", TRUE)
    /\ handed' = NotHanded
    /\ UNCHANGED <<currentSelection, editCount, lateEdits, undoCount>>
    /\ UNCHANGED timerVars
    /\ lastOp' = [op |-> "DOMContentLoaded"]
    /\ UNCHANGED historyOthers

\* createNewSwatch: pushHistory(), then the new block is appended and selected
CreateNewSwatch ==
    /\ onRestore # "null"
    /\ editCount < MaxEdits
    /\ undoCount > 0 => lateEdits < MaxLateEdits
    /\ historyStack' = pushHistory(historyStack, historyIndex, aseData).historyStack
    /\ historyIndex' = pushHistory(historyStack, historyIndex, aseData).historyIndex
    /\ aseData' = [aseData EXCEPT !.blocks = Append(@, NewColor)]
    /\ currentSelection' = Len(aseData.blocks)
    /\ Called("pushHistory", TRUE)
    /\ handed' = NotHanded
    /\ editCount' = editCount + 1
    /\ lateEdits' = IF undoCount > 0 THEN lateEdits + 1 ELSE lateEdits
    /\ DebouncedSave
    /\ UNCHANGED <<onRestore, undoCount>>
    /\ lastOp' = [op |-> "createNewSwatch"]
    /\ UNCHANGED historyOthers

\* restore() at the new index: restoreHistoryState(JSON.parse(historyStack[index]))
Restore(index) ==
    IF Restores(historyStack, index, onRestore)
        THEN /\ aseData' = JSONparse(historyStack[index + 1])
             /\ currentSelection' = -1
             /\ handed' = [handed |-> TRUE, data |-> JSONparse(historyStack[index + 1])]
        ELSE /\ UNCHANGED <<aseData, currentSelection>>
             /\ handed' = NotHanded

\* the undo button
Undo ==
    /\ historyIndex > 0 => undoCount < MaxUndos
    /\ IF historyIndex > 0
          THEN /\ historyIndex' = historyIndex - 1
               /\ Restore(historyIndex - 1)
               /\ undoCount' = undoCount + 1
               /\ DebouncedSave
               /\ Called("undo", TRUE)
          ELSE /\ UNCHANGED <<historyIndex, aseData, currentSelection, undoCount>>
               /\ UNCHANGED timerVars
               /\ handed' = NotHanded
               /\ Called("undo", FALSE)
    /\ UNCHANGED <<historyStack, onRestore, editCount, lateEdits>>
    /\ lastOp' = [op |-> "undo"]
    /\ UNCHANGED historyOthers

\* the redo button
Redo ==
    /\ IF historyIndex < Len(historyStack) - 1
          THEN /\ historyIndex' = historyIndex + 1
               /\ Restore(historyIndex + 1)
               /\ DebouncedSave
               /\ Called("redo", TRUE)
          ELSE /\ UNCHANGED <<historyIndex, aseData, currentSelection>>
               /\ UNCHANGED timerVars
               /\ handed' = NotHanded
               /\ Called("redo", FALSE)
    /\ UNCHANGED <<historyStack, onRestore, editCount, lateEdits, undoCount>>
    /\ lastOp' = [op |-> "redo"]
    /\ UNCHANGED historyOthers

NextSession == StartSession \/ CreateNewSwatch \/ Undo \/ Redo

(***************************************************************************)
(* Properties of the sort                                                  *)
(***************************************************************************)
Sorted == sortCriterion # ""

\* how many blocks of a sequence satisfy a test on the type
CountType(blcks, type) == Cardinality({i \in 1..Len(blcks) : blcks[i].type = type})

\* how often the object id occurs
Occurrences(blcks, id) == Cardinality({i \in 1..Len(blcks) : blcks[i].id = id})

\* C10: for every block sequence, balanced or not, and every criterion the
\* output of sortBlocksHierarchically is a permutation of its input: the same
\* number of blocks, of groupStart, groupEnd and colour blocks, and every input
\* block object exactly once (unchanged)
C10_SortIsPermutation ==
    Sorted =>
        /\ Len(sortResult) = Len(sortBlocks)
        /\ \A type \in {"groupStart", "groupEnd", "color"} :
              CountType(sortResult, type) = CountType(sortBlocks, type)
        /\ \A i \in 1..Len(sortBlocks) :
              /\ Occurrences(sortResult, sortBlocks[i].id) = 1
              /\ \E j \in 1..Len(sortResult) : sortResult[j] = sortBlocks[i]

\* an orphan groupEnd and a group that is never closed, moved by the sort
C10_Witness ==
    /\ Sorted
    /\ Len(sortBlocks) = 4
    /\ sortBlocks[1].type = "color"
    /\ sortBlocks[2].type = "groupEnd"
    /\ sortBlocks[3].type = "groupStart"
    /\ sortBlocks[4].type = "color"
    /\ sortResult # sortBlocks
    /\ sortResult[1] = sortBlocks[3]

\* the number of groups open at every position when blcks is scanned with the
\* stack rule: groupStart opens one, groupEnd closes one if one is open
RECURSIVE DepthsFrom(_, _, _)
DepthsFrom(blcks, i, open) ==
    IF i > Len(blcks) THEN <<>>
    ELSE <<open>> \o DepthsFrom(blcks, i + 1,
                        IF blcks[i].type = "groupStart" THEN open + 1
                        ELSE IF blcks[i].type = "groupEnd" /\ open > 0 THEN open - 1
                        ELSE open)

Depths(blcks) == DepthsFrom(blcks, 1, 0)

\* where the object id sits
PositionOf(blcks, id) == CHOOSE j \in 1..Len(blcks) : blcks[j].id = id

\* the groups left open at the end of the scan
UnclosedGroups(blcks) ==
    {i \in 1..Len(blcks) : blcks[i].type = "groupStart" /\ BuildTree(blcks).endBlock[i] = 0}

\* the groupEnds met while no group is open
OrphanEnds(blcks) ==
    {i \in 1..Len(blcks) : blcks[i].type = "groupEnd" /\ Depths(blcks)[i] = 0}

\* C11: for every block sequence, with unclosed groups or orphan groupEnds too,
\* every colour block has the same nesting depth in the output of
\* sortBlocksHierarchically as in the input
C11_DepthPreserved ==
    Sorted =>
        \A i \in 1..Len(sortBlocks) :
            sortBlocks[i].type = "color" =>
                Depths(sortResult)[PositionOf(sortResult, sortBlocks[i].id)]
                    = Depths(sortBlocks)[i]

\* C12: sortBlocksHierarchically is idempotent: sorting its output again with
\* the same criterion returns the same sequence
C12_SortIdempotent ==
    Sorted => sortBlocksHierarchically(sortResult, sortCriterion) = sortResult

\* the objects that are direct children of node n
ChildIds(blcks, n) == {blcks[j].id : j \in {k \in 1..Len(blcks) : BuildTree(blcks).parent[k] = n}}

\* C13: every groupStart the scan pairs with a groupEnd is, in the output,
\* followed before that same groupEnd by exactly the same direct children
C13_PairedGroupsKeepChildren ==
    Sorted =>
        \A i \in 1..Len(sortBlocks) :
            BuildTree(sortBlocks).endBlock[i] # 0 =>
                LET e == BuildTree(sortBlocks).endBlock[i]
                    p == PositionOf(sortResult, sortBlocks[i].id)
                    q == PositionOf(sortResult, sortBlocks[e].id)
                IN  /\ p < q
                    /\ BuildTree(sortResult).endBlock[p] = q
                    /\ ChildIds(sortResult, p) = ChildIds(sortBlocks, i)

\* a closed group whose two children change places
C13_Witness ==
    /\ Sorted
    /\ Len(sortBlocks) = 4
    /\ BuildTree(sortBlocks).endBlock[1] = 4
    /\ sortResult[2] = sortBlocks[3]
    /\ sortResult[3] = sortBlocks[2]

\* C14: sortBlocksHierarchically returns a block list for every input; a
\* groupEnd met while only the root is on the stack leaves the root on the
\* stack, becomes a leaf of the root and appears in the output
C14_OrphanEndIsRootLeaf ==
    Sorted =>
        /\ sortResult \in Seq({sortBlocks[i] : i \in 1..Len(sortBlocks)})
        /\ BuildTree(sortBlocks).stack[1] = 0
        /\ \A i \in OrphanEnds(sortBlocks) :
              /\ BuildTree(sortBlocks).parent[i] = 0
              /\ Occurrences(sortResult, sortBlocks[i].id) = 1

\* a list that starts with a groupEnd
C14_Witness ==
    /\ Sorted
    /\ 1 \in OrphanEnds(sortBlocks)
    /\ Len(sortBlocks) > 1
    /\ sortResult[Len(sortResult)] = sortBlocks[1]

\* the key the criterion orders colour nodes by, ascending
CriterionInOrder(a, b, criterion) ==
    IF criterion = "name" THEN localeCompare(NameOrEmpty(a), NameOrEmpty(b)) <= 0
    ELSE IF criterion = "hue" THEN HSLOf(a)[1] <= HSLOf(b)[1]
    ELSE IF criterion = "saturation" THEN HSLOf(a)[2] >= HSLOf(b)[2]
    ELSE IF criterion = "lightness" THEN HSLOf(a)[3] <= HSLOf(b)[3]
    ELSE TRUE

\* two siblings, a before b, stand in the order of the comparator
SiblingsInOrder(a, b, criterion) ==
    IF a.type = "groupStart" /\ b.type = "groupStart"
        THEN localeCompare(NameOrEmpty(a), NameOrEmpty(b)) <= 0
    ELSE IF a.type = "groupStart" THEN TRUE
    ELSE IF b.type = "groupStart" THEN FALSE
    ELSE CriterionInOrder(a, b, criterion)

\* every sibling list of blcks (the root's and each group's) is in order
SiblingListsInOrder(blcks, criterion) ==
    \A n \in 0..Len(blcks) :
        LET kids == Children(BuildTree(blcks), n)
        IN  \A x, y \in 1..Len(kids) :
                x < y => SiblingsInOrder(blcks[kids[x]], blcks[kids[y]], criterion)

\* C15: in the output every sibling list has its groups first, the groups in
\* non-decreasing name order and the other nodes ordered by the criterion
C15_SiblingsOrdered == Sorted => SiblingListsInOrder(sortResult, sortCriterion)

(***************************************************************************)
(* Editing: the handlers that change the document, run in one burst (no    *)
(* timer comes due in between) on a document with a group, and one file    *)
(* opened or merged.                                                       *)
(***************************************************************************)
editOthers == <<savedData, foreignAt, foreignKind, colorVars, sortVars, tripVars,
                viewMode, showContrastOverlay, storageVars>>

\* the document the burst starts with: A, group G with B, and C behind it
EditDocs ==
    { [version |-> <<1, 0>>,
       blocks |-> << [type |-> "color", name |-> <<65>>, model |-> TagRGB,
                      values |-> <<Scale, 2000, 2000>>, colorType |-> 2],
                     [type |-> "groupStart", name |-> <<71>>],
                     [type |-> "color", name |-> <<66>>, model |-> TagCMYK,
                      values |-> <<0, 5000, Scale, 2500>>, colorType |-> 1],
                     [type |-> "groupEnd"],
                     [type |-> "color", name |-> <<67>>, model |-> TagLAB,
                      values |-> <<6500, -125000, 1270000>>, colorType |-> 0] >>] }

InitEdit ==
    /\ aseData \in EditDocs
    /\ historyStack = initHistory(aseData).historyStack
    /\ historyIndex = initHistory(aseData).historyIndex
    /\ onRestore = "restoreHistoryState"
    /\ currentSelection = -1
    /\ lastCall = NoCallYet
    /\ handed = NotHanded
    /\ editCount = 0
    /\ lateEdits = 0
    /\ undoCount = 0
    /\ savedData = EmptyData
    /\ fileBuffer = <<>>
    /\ fileKind = "none"
    /\ foreignAt = -1
    /\ foreignKind = ""
    /\ parsed = NotLoaded
    /\ ColorIdle
    /\ SortIdle
    /\ TripIdle
    /\ StorageIdle
    /\ EditIdle

\* the indexes renderUI gives an element to
ColorIndexes(blcks) == {i \in 0..(Len(blcks) - 1) : blcks[i + 1].type = "color"}

\* (name || '') + ' Copy'
CopyName(b) == NameOrEmpty(b) \o <<32, 67, 111, 112, 121>>

\* JSON.parse(JSON.stringify(original)) with the name changed
CopyOf(b) ==
    LET copy == JSONparse(JSONstringify(b))
    IN  [f \in DOMAIN copy \cup {"name"} |-> IF f = "name" THEN CopyName(copy) ELSE copy[f]]

\* pushHistory() in a handler that goes on to change the document
PushHistory ==
    /\ historyStack' = pushHistory(historyStack, historyIndex, aseData).historyStack
    /\ historyIndex' = pushHistory(historyStack, historyIndex, aseData).historyIndex
    /\ DebouncedSave
    /\ Called("pushHistory", TRUE)
    /\ handed' = NotHanded
    /\ editCount' = editCount + 1
    /\ UNCHANGED <<onRestore, lateEdits, undoCount>>

\* a handler that leaves history.ts alone
NoHistoryCall == UNCHANGED <<historyStack, historyIndex, onRestore, callVars, timerVars>>

\* el.onclick
SelectSwatch ==
    /\ \E index \in ColorIndexes(aseData.blocks) : currentSelection' = index
    /\ lastOp' = [op |-> "selectSwatch"]
    /\ NoHistoryCall
    /\ UNCHANGED <<aseData, fileBuffer, fileKind, parsed, currentFileName>>
    /\ UNCHANGED <<deleteConfirm, deleteAllConfirm>>
    /\ UNCHANGED editOthers

\* the New button
NewSwatch ==
    /\ editCount < MaxOps
    /\ CreateNewSwatch

\* the delay after which the Delete button forgets the first click, ms
DeleteConfirmDelay == 2000

\* the same for the Delete all button
DeleteAllConfirmDelay == 3000

\* the Delete button, the Delete key: the first click asks, the second deletes
DeleteCurrentSwatch ==
    /\ currentSelection # -1
    /\ IF ~deleteConfirm
          THEN /\ deleteConfirm' = TRUE
               /\ timers' = setTimeout(timers, NewTimerId(timers, {saveTimeout}),
                                       "deleteConfirm", DeleteConfirmDelay)
               /\ UNCHANGED <<saveTimeout, sinceSave, runCalls>>
               /\ UNCHANGED <<historyStack, historyIndex, onRestore, callVars>>
               /\ UNCHANGED <<aseData, currentSelection>>
          ELSE /\ editCount < MaxOps
               /\ PushHistory
               /\ aseData' = [aseData EXCEPT !.blocks = RemoveAt(@, currentSelection + 1)]
               /\ currentSelection' = -1
               /\ deleteConfirm' = FALSE
    /\ lastOp' = [op |-> "deleteCurrentSwatch"]
    /\ UNCHANGED <<fileBuffer, fileKind, parsed, currentFileName, deleteAllConfirm>>
    /\ UNCHANGED editOthers

\* the Delete all button: the first click asks, the second empties the document
DeleteAllSwatches ==
    /\ Len(aseData.blocks) # 0
    /\ IF ~deleteAllConfirm
          THEN /\ deleteAllConfirm' = TRUE
               /\ timers' = setTimeout(timers, NewTimerId(timers, {saveTimeout}),
                                       "deleteAllConfirm", DeleteAllConfirmDelay)
               /\ UNCHANGED <<saveTimeout, sinceSave, runCalls>>
               /\ UNCHANGED <<historyStack, historyIndex, onRestore, callVars>>
               /\ UNCHANGED <<aseData, currentSelection>>
          ELSE /\ editCount < MaxOps
               /\ PushHistory
               /\ aseData' = [aseData EXCEPT !.blocks = <<>>]
               /\ currentSelection' = -1
               /\ deleteAllConfirm' = FALSE
    /\ lastOp' = [op |-> "deleteAllSwatches"]
    /\ UNCHANGED <<fileBuffer, fileKind, parsed, currentFileName, deleteConfirm>>
    /\ UNCHANGED editOthers

\* the Duplicate button: the copy goes behind the original and is selected
DuplicateCurrentSwatch ==
    /\ currentSelection # -1
    /\ editCount < MaxOps
    /\ PushHistory
    /\ aseData' = [aseData EXCEPT !.blocks =
                      InsertAt(@, currentSelection + 1, CopyOf(@[currentSelection + 1]))]
    /\ currentSelection' = currentSelection + 1
    /\ lastOp' = [op |-> "duplicateCurrentSwatch"]
    /\ UNCHANGED <<fileBuffer, fileKind, parsed, currentFileName>>
    /\ UNCHANGED <<deleteConfirm, deleteAllConfirm>>
    /\ UNCHANGED editOthers

\* null in a comparison or under ++ is 0
ToNumber(selection) == IF selection = -1 THEN 0 ELSE selection

SelectionAfterMove_Mutant(selection, sourceIndex, targetIndex) ==
    IF selection = sourceIndex THEN targetIndex ELSE selection

\* state.currentSelection after the move logic of handleSwatchDrop
SelectionAfterMove(selection, sourceIndex, targetIndex) ==
    IF selection = sourceIndex THEN targetIndex
    ELSE IF targetIndex <= ToNumber(selection) /\ sourceIndex > ToNumber(selection)
        THEN ToNumber(selection) + 1
    ELSE IF sourceIndex < ToNumber(selection) /\ targetIndex >= ToNumber(selection)
        THEN ToNumber(selection) - 1
    ELSE selection

\* splice(sourceIndex, 1), then splice(targetIndex, 0, movedItem)
MoveBlock(blcks, sourceIndex, targetIndex) ==
    InsertAt(RemoveAt(blcks, sourceIndex + 1), targetIndex, blcks[sourceIndex + 1])

\* el.ondrop: the swatch dragged from sourceIndex is dropped on the one at
\* targetIndex, copied with Alt and moved without (a drop on itself without
\* Alt returns at once)
HandleSwatchDrop ==
    /\ editCount < MaxOps
    /\ \E sourceIndex \in ColorIndexes(aseData.blocks),
          targetIndex \in ColorIndexes(aseData.blocks), altKey \in BOOLEAN :
          /\ ~(sourceIndex = targetIndex /\ ~altKey)
          /\ lastOp' = [op |-> "handleSwatchDrop", sourceIndex |-> sourceIndex,
                        targetIndex |-> targetIndex, altKey |-> altKey]
          /\ IF altKey
                THEN /\ aseData' = [aseData EXCEPT !.blocks =
                                       InsertAt(@, targetIndex, CopyOf(@[sourceIndex + 1]))]
                     /\ currentSelection' = targetIndex
                ELSE /\ aseData' = [aseData EXCEPT !.blocks =
                                       MoveBlock(@, sourceIndex, targetIndex)]
                     /\ currentSelection' =
                            SelectionAfterMove(currentSelection, sourceIndex, targetIndex)
    /\ PushHistory
    /\ UNCHANGED <<fileBuffer, fileKind, parsed, currentFileName>>
    /\ UNCHANGED <<deleteConfirm, deleteAllConfirm>>
    /\ UNCHANGED editOthers

\* the sort select: an empty value returns at once
HandleSort ==
    /\ editCount < MaxOps
    /\ \E criterion \in {"name", "hue"} :
          /\ aseData' = [aseData EXCEPT !.blocks = sortBlocksHierarchically(@, criterion)]
          /\ lastOp' = [op |-> "handleSort", criterion |-> criterion]
    /\ PushHistory
    /\ currentSelection' = -1
    /\ UNCHANGED <<fileBuffer, fileKind, parsed, currentFileName>>
    /\ UNCHANGED <<deleteConfirm, deleteAllConfirm>>
    /\ UNCHANGED editOthers

\* block[f] = v, whether or not the block had the field
SetField(b, f, v) == [g \in DOMAIN b \cup {f} |-> IF g = f THEN v ELSE b[g]]

\* "Untitled Group"
UntitledGroup == <<85, 110, 116, 105, 116, 108, 101, 100, 32, 71, 114, 111, 117, 112>>

\* label.value = block.name || 'Untitled Group'
LabelOf(b) == IF NameTruthy(b) THEN b.name ELSE UntitledGroup

\* a group's label loses the focus with another text in it
RenameGroup ==
    /\ editCount < MaxOps
    /\ \E i \in 1..Len(aseData.blocks), value \in {<<71>>, <<72>>} :
          /\ aseData.blocks[i].type = "groupStart"
          /\ value # LabelOf(aseData.blocks[i])
          /\ aseData' = [aseData EXCEPT !.blocks[i] = SetField(@, "name", value)]
    /\ lastOp' = [op |-> "renameGroup"]
    /\ PushHistory
    /\ UNCHANGED <<currentSelection, fileBuffer, fileKind, parsed, currentFileName>>
    /\ UNCHANGED <<deleteConfirm, deleteAllConfirm>>
    /\ UNCHANGED editOthers

\* the batch actions that need no rgbToLab
BatchActions == {"lab-rgb", "lab-cmyk", "process-spot", "set-global", "unset-global"}

ColorTypeOf(b) == IF Has(b, "colorType") THEN b.colorType ELSE -1

\* the body of handleBatchAction's forEach
BatchBlock(b, action) ==
    LET v == ValuesOf(b)
        rgb == labToRgbValues(Chan(v, 1), Chan(v, 2), Chan(v, 3))
    IN  IF b.type # "color" THEN b
        ELSE IF action = "lab-rgb" /\ ModelName(b) = StrLAB /\ Len(v) = 3
            THEN SetField(SetField(b, "values", rgb), "model", TagRGB)
        ELSE IF action = "lab-cmyk" /\ ModelName(b) = StrLAB /\ Len(v) = 3
            THEN SetField(SetField(b, "values", rgbToCmyk(rgb[1], rgb[2], rgb[3])),
                          "model", TagCMYK)
        ELSE IF action = "process-spot" /\ ColorTypeOf(b) # 1
            THEN SetField(b, "colorType", 1)
        ELSE IF action = "set-global" /\ ColorTypeOf(b) = 2
            THEN SetField(b, "colorType", 0)
        ELSE IF action = "unset-global" /\ ColorTypeOf(b) \in {0, 1}
            THEN SetField(b, "colorType", 2)
        ELSE b

\* a batch button
HandleBatchAction ==
    /\ Len(aseData.blocks) # 0
    /\ editCount < MaxOps
    /\ \E action \in BatchActions :
          /\ aseData' = [aseData EXCEPT !.blocks =
                            [i \in 1..Len(@) |-> BatchBlock(@[i], action)]]
          /\ lastOp' = [op |-> "handleBatchAction", action |-> action]
    /\ PushHistory
    /\ UNCHANGED <<currentSelection, fileBuffer, fileKind, parsed, currentFileName>>
    /\ UNCHANGED <<deleteConfirm, deleteAllConfirm>>
    /\ UNCHANGED editOthers

\* 0.299 r + 0.587 g + 0.114 b
rgbToGray(r, g, b) == <<RoundDiv(299 * r + 587 * g + 114 * b, 1000)>>

\* the block after handleModelChange with inpModel.value = newModelRaw
ModelChanged(b, newModelRaw, rgb) ==
    LET newModel == Trim(newModelRaw)
    IN  IF newModel = StrRGB THEN SetField(SetField(b, "model", TagRGB), "values", rgb)
        ELSE IF newModel = StrCMYK
            THEN SetField(SetField(b, "model", TagCMYK), "values",
                          rgbToCmyk(rgb[1], rgb[2], rgb[3]))
        ELSE IF newModel = StrGray
            THEN SetField(SetField(b, "model", TagGray), "values",
                          rgbToGray(rgb[1], rgb[2], rgb[3]))
        ELSE SetField(SetField(b, "model", TagRGB), "values", rgb)

\* the model select of the editor panel changes (RGB, CMYK or Gray chosen):
\* the selected block is converted in place
HandleModelChange ==
    /\ currentSelection # -1
    /\ editCount < MaxOps
    /\ \E newModelRaw \in {TagRGB, TagCMYK, TagGray} :
          LET b == aseData.blocks[currentSelection + 1]
          IN  /\ ModelName(b) # Trim(newModelRaw)
              /\ aseData' = [aseData EXCEPT !.blocks[currentSelection + 1] =
                                ModelChanged(b, newModelRaw,
                                    blockToRgb(b, isReady, cmykTransform, AnyOutcome))]
    /\ lastOp' = [op |-> "handleModelChange"]
    /\ editCount' = editCount + 1
    /\ UNCHANGED <<historyStack, historyIndex, onRestore, timerVars>>
    /\ UNCHANGED <<lastCall, handed, lateEdits, undoCount>>
    /\ UNCHANGED <<currentSelection, fileBuffer, fileKind, parsed, currentFileName>>
    /\ UNCHANGED <<deleteConfirm, deleteAllConfirm>>
    /\ UNCHANGED editOthers

\* what the number typed into a channel's input stands for
TypedValue(model, idx, typed) ==
    IF model = StrRGB THEN RoundDiv(typed * Scale, 255)
    ELSE IF model \in {StrCMYK, StrGray} THEN RoundDiv(typed * Scale, 100)
    ELSE IF model = StrLAB /\ idx = 0 /\ typed > 1 THEN RoundDiv(typed * Scale, 100)
    ELSE typed * Scale

\* the Apply button: the name, the model shown, the numbers typed and the
\* colour type go into the selected block
ApplyChanges ==
    /\ currentSelection # -1
    /\ editCount < MaxOps
    /\ \E value \in {<<65>>, <<78>>}, typed \in {0, 50},
          spot \in BOOLEAN, global \in BOOLEAN :
          LET b == aseData.blocks[currentSelection + 1]
              shown == ModelOrDefault(b)
              newValues == [i \in 1..NumChannels(shown) |->
                               TypedValue(Trim(shown), i - 1, typed)]
              colorType == IF spot THEN 1 ELSE IF global THEN 0 ELSE 2
          IN  aseData' = [aseData EXCEPT !.blocks[currentSelection + 1] =
                  SetField(SetField(SetField(SetField(b, "name", value), "model", shown),
                                    "values", newValues), "colorType", colorType)]
    /\ lastOp' = [op |-> "applyChanges"]
    /\ PushHistory
    /\ UNCHANGED <<currentSelection, fileBuffer, fileKind, parsed, currentFileName>>
    /\ UNCHANGED <<deleteConfirm, deleteAllConfirm>>
    /\ UNCHANGED editOthers

\* the document in the file chosen: a colour named like A, a new colour, a group
FileDoc ==
    [version |-> <<1, 0>>,
     blocks |-> << [type |-> "color", name |-> <<97>>, model |-> TagRGB,
                    values |-> <<0, 0, Scale>>, colorType |-> 2],
                   [type |-> "groupStart", name |-> <<72>>],
                   [type |-> "color", name |-> <<78>>, model |-> TagGray,
                    values |-> <<5000>>, colorType |-> 2],
                   [type |-> "groupEnd"] >>]

\* the bytes of the file chosen: as written, cut short, or not an ASE file
FileBytes(kind) ==
    LET written == createASEBuffer(FileDoc)
    IN  IF kind = "saved" THEN written
        ELSE IF kind = "truncated" THEN SubSeq(written, 1, Len(written) - 3)
        ELSE [written EXCEPT ![1] = 88]

\* a file is chosen in the file dialog
ChooseFile ==
    /\ fileKind = "none"
    /\ \E kind \in {"saved", "truncated", "badsig"} :
          /\ fileKind' = kind
          /\ fileBuffer' = FileBytes(kind)
    /\ lastOp' = [op |-> "chooseFile"]
    /\ NoHistoryCall
    /\ UNCHANGED <<aseData, currentSelection, parsed, currentFileName>>
    /\ UNCHANGED <<deleteConfirm, deleteAllConfirm>>
    /\ UNCHANGED editOthers

\* the names loadMergeFile holds to be taken
ExistingNames(blcks) ==
    {NormalizeName(blcks[j].name) :
        j \in {k \in 1..Len(blcks) : blcks[k].type = "color" /\ Has(blcks[k], "name")}}

\* the blocks after newData.blocks.forEach from the i-th block on
RECURSIVE MergeInto(_, _, _)
MergeInto(acc, incoming, i) ==
    IF i > Len(incoming) THEN acc
    ELSE IF /\ incoming[i].type = "color"
            /\ NameTruthy(incoming[i])
            /\ NormalizeName(incoming[i].name) \notin ExistingNames(acc)
        THEN MergeInto(Append(acc, incoming[i]), incoming, i + 1)
    ELSE MergeInto(acc, incoming, i + 1)

\* loadMergeFile of a file whose name ends in .ase into a document that is
\* not empty (into an empty one it is loadFile): pushHistory(), then the
\* colours with new names are appended, or the error toast; nothing else runs
\* while the file is read
LoadMergeFile ==
    /\ fileKind # "none"
    /\ parsed = NotLoaded
    /\ Len(aseData.blocks) # 0
    /\ editCount < MaxOps
    /\ PushHistory
    /\ parsed' = parseASE(fileBuffer)
    /\ aseData' = IF parsed'.ok
                     THEN [aseData EXCEPT !.blocks = MergeInto(@, parsed'.data.blocks, 1)]
                     ELSE aseData
    /\ lastOp' = [op |-> "loadMergeFile"]
    /\ UNCHANGED <<currentSelection, fileBuffer, fileKind, currentFileName>>
    /\ UNCHANGED <<deleteConfirm, deleteAllConfirm>>
    /\ UNCHANGED editOthers

NextEdit ==
    \/ SelectSwatch \/ NewSwatch \/ DeleteCurrentSwatch \/ DeleteAllSwatches
    \/ DuplicateCurrentSwatch \/ HandleSwatchDrop \/ HandleSort \/ RenameGroup
    \/ HandleBatchAction \/ HandleModelChange \/ ApplyChanges
    \/ ChooseFile \/ LoadFile \/ LoadMergeFile

(***************************************************************************)
(* Storage: initStorage races its timeout against the open request, the    *)
(* view handlers schedule saves, timers fire when they are due.            *)
(***************************************************************************)
storageOthers == <<fileVars, colorVars, sortVars, tripVars, historyVars, callVars, editVars>>

\* what a session left in the store
StoredDoc ==
    [version |-> <<1, 0>>,
     blocks |-> << [type |-> "color", name |-> <<83>>, model |-> TagRGB,
                    values |-> <<0, Scale, 0>>, colorType |-> 2] >>]

\* the records the store may hold under DB_KEY: none, a full one, one whose
\* other fields are empty, one without aseData
StoredRecords ==
    { NoRecord,
      [found |-> TRUE, aseData |-> StoredDoc, currentFileName |-> "saved.ase",
       viewMode |-> "list", showContrastOverlay |-> TRUE],
      [found |-> TRUE, aseData |-> StoredDoc, currentFileName |-> "",
       viewMode |-> "", showContrastOverlay |-> FALSE],
      [found |-> TRUE, currentFileName |-> "saved.ase",
       viewMode |-> "list", showContrastOverlay |-> TRUE] }

\* the times by which the clock is advanced, ms
TickSteps == {500, 999}

InitStore ==
    /\ stored \in StoredRecords
    /\ currentFileName = DefaultFileName
    /\ viewMode = "grid"
    /\ showContrastOverlay = FALSE
    /\ db = "null"
    /\ saveTimeout = 0
    /\ timers = {}
    /\ sinceSave = -1
    /\ runCalls = 0
    /\ isComplete = FALSE
    /\ timeoutId = 0
    /\ initPromise = "none"
    /\ openRequest = "none"
    /\ readRequest = "none"
    /\ lastPersist = NotPersisted
    /\ CodecIdle
    /\ ColorIdle
    /\ SortIdle
    /\ TripIdle
    /\ HistoryIdle
    /\ EditIdle

\* persistState(): the snapshot is put under DB_KEY unless db is null or the
\* transaction throws
PersistState(by) ==
    IF db = "null"
        THEN /\ lastPersist' = [by |-> by, wrote |-> FALSE]
             /\ UNCHANGED stored
        ELSE \E threw \in BOOLEAN :
                /\ lastPersist' = [by |-> by, wrote |-> ~threw]
                /\ stored' = IF threw THEN stored
                             ELSE [found |-> TRUE, aseData |-> aseData,
                                   currentFileName |-> currentFileName,
                                   viewMode |-> viewMode,
                                   showContrastOverlay |-> showContrastOverlay]

AlreadyComplete_Mutant(complete) == FALSE

\* if (isComplete) in the callbacks of the open request
AlreadyComplete(complete) == complete

\* initStorage(): the timeout is set and the database is asked for
InitStorage ==
    /\ initPromise = "none"
    /\ initPromise' = "pending"
    /\ isComplete' = FALSE
    /\ timeoutId' = NewTimerId(timers, {saveTimeout})
    /\ timers' = setTimeout(timers, timeoutId', "open", OpenTimeout)
    /\ openRequest' = "pending"
    /\ UNCHANGED <<db, readRequest, stored, lastPersist, saveTimeout, sinceSave, runCalls>>
    /\ UNCHANGED <<aseData, stateVars>>
    /\ UNCHANGED storageOthers

MinRemaining == CHOOSE m \in {t.remaining : t \in timers} : \A t \in timers : m <= t.remaining

\* time passes, no further than the next timer that is due
Tick ==
    /\ timers # {}
    /\ \E d \in TickSteps \cup {MinRemaining} :
          /\ d > 0
          /\ d <= MinRemaining
          /\ timers' = {[t EXCEPT !.remaining = @ - d] : t \in timers}
          /\ sinceSave' = IF sinceSave >= 0 THEN sinceSave + d ELSE sinceSave
    /\ UNCHANGED <<saveTimeout, runCalls, storageVars, aseData, stateVars>>
    /\ UNCHANGED storageOthers

\* initStorage's timeout callback
OpenTimedOut ==
    /\ \E t \in timers :
          /\ t.kind = "open"
          /\ t.remaining = 0
          /\ timers' = timers \ {t}
    /\ IF ~isComplete
          THEN /\ isComplete' = TRUE
               /\ initPromise' = "false"
          ELSE UNCHANGED <<isComplete, initPromise>>
    /\ UNCHANGED <<db, timeoutId, openRequest, readRequest, stored, lastPersist>>
    /\ UNCHANGED <<saveTimeout, sinceSave, runCalls, aseData, stateVars>>
    /\ UNCHANGED storageOthers

\* request.onsuccess: db is kept; unless the promise is settled, loadState()
\* starts the read, or db.transaction throws
OpenSucceeds ==
    /\ openRequest = "pending"
    /\ openRequest' = "success"
    /\ db' = "open"
    /\ IF AlreadyComplete(isComplete)
          THEN UNCHANGED <<isComplete, timers, readRequest, initPromise>>
          ELSE /\ timers' = clearTimeout(timers, timeoutId)
               /\ isComplete' = TRUE
               /\ \E threw \in BOOLEAN :
                     /\ readRequest' = IF threw THEN "threw" ELSE "pending"
                     /\ initPromise' = IF threw THEN "false" ELSE initPromise
    /\ UNCHANGED <<timeoutId, stored, lastPersist, saveTimeout, sinceSave, runCalls>>
    /\ UNCHANGED <<aseData, stateVars>>
    /\ UNCHANGED storageOthers

\* request.onerror
OpenFails ==
    /\ openRequest = "pending"
    /\ openRequest' = "error"
    /\ IF AlreadyComplete(isComplete)
          THEN UNCHANGED <<isComplete, timers, initPromise>>
          ELSE /\ timers' = clearTimeout(timers, timeoutId)
               /\ isComplete' = TRUE
               /\ initPromise' = "false"
    /\ UNCHANGED <<db, timeoutId, readRequest, stored, lastPersist, saveTimeout, sinceSave, runCalls>>
    /\ UNCHANGED <<aseData, stateVars>>
    /\ UNCHANGED storageOthers

\* loadState: the get request's onsuccess
ReadSucceeds ==
    /\ readRequest = "pending"
    /\ readRequest' = "success"
    /\ IF stored.found /\ Has(stored, "aseData")
          THEN /\ aseData' = stored.aseData
               /\ currentFileName' = IF stored.currentFileName # ""
                                        THEN stored.currentFileName ELSE DefaultFileName
               /\ viewMode' = IF stored.viewMode # "" THEN stored.viewMode ELSE "grid"
               /\ showContrastOverlay' = stored.showContrastOverlay
               /\ initPromise' = "true"
          ELSE /\ UNCHANGED <<aseData, stateVars>>
               /\ initPromise' = "false"
    /\ UNCHANGED <<db, isComplete, timeoutId, openRequest, stored, lastPersist>>
    /\ UNCHANGED timerVars
    /\ UNCHANGED storageOthers

\* loadState: the get request's onerror
ReadFails ==
    /\ readRequest = "pending"
    /\ readRequest' = "error"
    /\ initPromise' = "false"
    /\ UNCHANGED <<db, isComplete, timeoutId, openRequest, stored, lastPersist>>
    /\ UNCHANGED <<aseData, stateVars, timerVars>>
    /\ UNCHANGED storageOthers

\* db.onversionchange
VersionChange ==
    /\ db = "open"
    /\ db' = "null"
    /\ UNCHANGED <<isComplete, timeoutId, initPromise, openRequest, readRequest,
                   stored, lastPersist>>
    /\ UNCHANGED <<aseData, stateVars, timerVars>>
    /\ UNCHANGED storageOthers

\* the grid and list buttons
SetViewMode ==
    /\ \E mode \in {"grid", "list"} : viewMode' = mode
    /\ DebouncedSave
    /\ UNCHANGED <<aseData, currentFileName, showContrastOverlay, storageVars>>
    /\ UNCHANGED storageOthers

\* the contrast button
ToggleContrastOverlay ==
    /\ showContrastOverlay' = ~showContrastOverlay
    /\ DebouncedSave
    /\ UNCHANGED <<aseData, currentFileName, viewMode, storageVars>>
    /\ UNCHANGED storageOthers

\* the callback debouncedSave gave to setTimeout
SaveTimerFires ==
    /\ \E t \in timers :
          /\ t.kind = "save"
          /\ t.remaining = 0
          /\ timers' = timers \ {t}
    /\ PersistState("timer")
    /\ sinceSave' = -1
    /\ UNCHANGED <<db, isComplete, timeoutId, initPromise, openRequest, readRequest>>
    /\ UNCHANGED <<saveTimeout, runCalls, aseData, stateVars>>
    /\ UNCHANGED storageOthers

\* pagehide, visibilitychange: forceSaveState()
ForceSaveState ==
    /\ timers' = ClearPending(timers, saveTimeout)
    /\ PersistState("force")
    /\ sinceSave' = -1
    /\ UNCHANGED <<db, isComplete, timeoutId, initPromise, openRequest, readRequest>>
    /\ UNCHANGED <<saveTimeout, runCalls, aseData, stateVars>>
    /\ UNCHANGED storageOthers

NextStore ==
    \/ InitStorage \/ Tick \/ OpenTimedOut \/ OpenSucceeds \/ OpenFails
    \/ ReadSucceeds \/ ReadFails \/ VersionChange
    \/ SetViewMode \/ ToggleContrastOverlay \/ SaveTimerFires \/ ForceSaveState

(***************************************************************************)
(* Properties of the history                                               *)
(***************************************************************************)
Initialised == onRestore # "null"

AtTip == historyIndex >= Len(historyStack) - 1

\* an undo at index 0, or a redo at the last index, is made in this step
RefusedStep ==
    /\ Initialised
    /\ \/ lastCall'.op = "undo" /\ historyIndex = 0
       \/ lastCall'.op = "redo" /\ historyIndex = Len(historyStack) - 1

\* C17: after initHistory 1 <= historyStack.length <= 50 and
\* 0 <= historyIndex <= historyStack.length - 1 whatever is pushed, undone
\* and redone; undo() at index 0 and redo() at the last index return false and
\* change neither the index, the stack nor the document
C17_HistoryWithinBounds ==
    /\ [](Initialised =>
            /\ 1 <= Len(historyStack) /\ Len(historyStack) <= 50
            /\ 0 <= historyIndex /\ historyIndex <= Len(historyStack) - 1)
    /\ [][RefusedStep =>
            /\ ~lastCall'.ok
            /\ UNCHANGED <<historyIndex, historyStack, aseData>>]_vars

\* the stack is full, an entry has been dropped, and a redo was refused
C17_Witness ==
    /\ Len(historyStack) = 50
    /\ editCount >= 50
    /\ undoCount = 0
    /\ lastCall.op = "redo" /\ ~lastCall.ok

\* the stack a pushHistory must leave: the entries up to historyIndex and the
\* snapshot of the document (the oldest entry dropped beyond the limit)
PushedOn(stack, index, data) ==
    LET appended == Append(SubSeq(stack, 1, index + 1), [json |-> data])
    IN  IF Len(appended) > 50 THEN Tail(appended) ELSE appended

\* C18: pushHistory discards every entry after historyIndex before it appends;
\* right after any pushHistory historyIndex is historyStack.length - 1, and
\* redo() returns false until an undo() has succeeded (the index leaves the
\* last entry only by a successful undo, and redo succeeds only off it)
C18_PushDiscardsFuture ==
    /\ [][lastCall'.op = "pushHistory" =>
            /\ historyStack' = PushedOn(historyStack, historyIndex, aseData)
            /\ historyIndex' = Len(historyStack') - 1]_vars
    /\ [][(lastCall'.op = "redo" /\ lastCall'.ok) => ~AtTip]_vars
    /\ [][(AtTip /\ ~AtTip') => (lastCall'.op = "undo" /\ lastCall'.ok)]_vars

\* an edit made right after an undo: the undone entry is gone
C18_Witness ==
    /\ lastCall.op = "pushHistory"
    /\ undoCount = 1
    /\ lateEdits = 1
    /\ editCount < 50
    /\ Len(historyStack) = editCount

\* C19: after initHistory and one or more edits (pushHistory, then the change)
\* a single undo() hands the restore callback the document as it was just
\* before the most recent edit
C19_UndoRestoresBeforeLastEdit ==
    (lastCall.op = "undo" /\ lastCall.context # NoData
        /\ undoCount = (IF lastCall.ok THEN 1 ELSE 0)) =>
        /\ lastCall.ok
        /\ handed = [handed |-> TRUE, data |-> lastCall.context]

\* C20: when undo() has succeeded, a redo() right after it leaves state.aseData
\* as it was just before the undo()
C20_RedoAfterUndoRestores ==
    (lastCall.op = "redo" /\ lastCall.context # NoData) =>
        /\ lastCall.ok
        /\ aseData = lastCall.context

(***************************************************************************)
(* Properties of the storage                                               *)
(***************************************************************************)
Settled == initPromise \in {"true", "false"}

\* the open request succeeds in this step, after the timeout resolved false
OpensLate ==
    /\ openRequest = "pending"
    /\ openRequest' = "success"
    /\ initPromise = "false"

\* C22: the promise of initStorage takes the outcome of the first callback
\* only; when the database opens after the timeout has resolved false,
\* loadState is not run (then or later) and state.aseData, currentFileName,
\* viewMode and showContrastOverlay are not overwritten, while db is stored
C22_FirstOutcomeWins ==
    /\ [][Settled => initPromise' = initPromise]_vars
    /\ [][OpensLate =>
            /\ db' = "open"
            /\ readRequest' = "none"
            /\ UNCHANGED <<aseData, currentFileName, viewMode, showContrastOverlay>>]_vars
    /\ [][(readRequest = "none" /\ openRequest # "pending") => readRequest' = "none"]_vars
    /\ [][readRequest # "pending" => UNCHANGED <<aseData, currentFileName>>]_vars

\* the database opened after the timeout, a record was in the store, and a
\* later timer-driven persistState wrote the document the session has
C22_Witness ==
    /\ openRequest = "success"
    /\ readRequest = "none"
    /\ initPromise = "false"
    /\ lastPersist = [by |-> "timer", wrote |-> TRUE]
    /\ stored.aseData = EmptyData
    /\ stored.viewMode = "list"
    /\ aseData = EmptyData

SaveTimers == {t \in timers : t.kind = "save"}

\* persistState() is called in this step and ends a run of debouncedSave calls
RunEnds == sinceSave >= 0 /\ sinceSave' = -1

\* C24: at most one save timer is pending; a run of debouncedSave calls, each
\* made less than 1000 ms after the one before, causes one persistState, 1000 ms
\* after the last call (while the run lasts the one timer is due 1000 ms after
\* its last call, and when it fires none is left); forceSaveState cancels the
\* pending timer and persists at once; persistState writes nothing while db is
\* null
C24_OneSavePerRun ==
    /\ [](Cardinality(SaveTimers) <= 1)
    /\ []((sinceSave >= 0) <=> (SaveTimers # {}))
    /\ [](\A t \in SaveTimers : t.id = saveTimeout /\ t.remaining = 1000 - sinceSave)
    /\ [][(RunEnds /\ lastPersist'.by = "timer") => sinceSave = 1000]_vars
    /\ [][(RunEnds /\ sinceSave < 1000) => lastPersist'.by = "force"]_vars
    /\ [][db = "null" => stored' = stored]_vars

\* a run of two debouncedSave calls was ended by the timer, which wrote once
C24_Witness ==
    /\ runCalls = 2
    /\ sinceSave = -1
    /\ SaveTimers = {}
    /\ lastPersist = [by |-> "timer", wrote |-> TRUE]
    /\ stored.viewMode = "list"
    /\ stored.showContrastOverlay

\* C23: the promise returned by initStorage always eventually resolves, even
\* if the open request or the read of the stored record never calls back
C23_InitStorageResolves == (initPromise = "pending") ~> Settled

\* the step is a user's edit of the document: aseData changes, and not by a
\* restore (undo, redo), a load or the start of the session
EditsDocument ==
    /\ aseData' # aseData
    /\ lastOp'.op \notin {"undo", "redo", "loadFile", "DOMContentLoaded"}

\* pushHistory() ran in this step on the document as it was before the step
PushedBefore ==
    /\ historyStack' = PushedOn(historyStack, historyIndex, aseData)
    /\ historyIndex' = Len(historyStack') - 1

\* debouncedSave() ran in this step
SaveScheduled ==
    /\ sinceSave' = 0
    /\ \E t \in timers' : t.kind = "save" /\ t.id = saveTimeout' /\ t.remaining = SaveDelay

\* C21: every user operation that changes the blocks or a field of a block
\* (create, delete, delete all, duplicate, drag move or copy, sort, merge, batch
\* action, group rename, apply changes, model change in the editor) calls
\* pushHistory before the change, so the change has its own undo step and a
\* save is scheduled
C21_EditsPushHistory == [][EditsDocument => (PushedBefore /\ SaveScheduled)]_vars

\* where the block at index c is after the block at s was taken out and put
\* back at t
NewIndexOf(c, s, t) ==
    LET afterRemoval == IF c > s THEN c - 1 ELSE c
    IN  IF c = s THEN t
        ELSE IF afterRemoval >= t THEN afterRemoval + 1 ELSE afterRemoval

\* the step is a drag move without Alt while a swatch is selected
MovesWithSelection ==
    /\ lastOp'.op = "handleSwatchDrop"
    /\ lastOp' # lastOp \/ aseData' # aseData
    /\ ~lastOp'.altKey
    /\ lastOp'.sourceIndex # lastOp'.targetIndex
    /\ currentSelection # -1

\* C25: a drag move without Alt from sourceIndex to another targetIndex, with a
\* swatch selected, leaves the same blocks, the moved one at targetIndex and
\* the others in their previous relative order, and currentSelection is the
\* new index of the block that was selected
C25_MoveKeepsSelection ==
    [][MovesWithSelection =>
         LET s == lastOp'.sourceIndex
             t == lastOp'.targetIndex
             old == aseData.blocks
             new == aseData'.blocks
         IN  /\ Len(new) = Len(old)
             /\ new[t + 1] = old[s + 1]
             /\ \A i \in 0..(Len(old) - 1) : new[NewIndexOf(i, s, t) + 1] = old[i + 1]
             /\ \A i, j \in (0..(Len(old) - 1)) \ {s} :
                   i < j => NewIndexOf(i, s, t) < NewIndexOf(j, s, t)
             /\ currentSelection' = NewIndexOf(currentSelection, s, t)]_vars

\* A was dragged from the front onto C while B was selected: B, now one place
\* nearer the front, is still the selected block
C25_Witness ==
    /\ lastOp = [op |-> "handleSwatchDrop", sourceIndex |-> 0, targetIndex |-> 4,
                 altKey |-> FALSE]
    /\ currentSelection = 1
    /\ aseData.blocks[2].name = <<66>>
    /\ aseData.blocks[5].name = <<65>>

\* parseASE threw in this step
ParseFailed == parsed = NotLoaded /\ parsed' # NotLoaded /\ ~parsed'.ok

\* C26: when parseASE throws during loadFile or loadMergeFile, aseData,
\* currentSelection, currentFileName, the history stack and historyIndex are
\* all as they were before the attempt
C26_FailedLoadChangesNothing ==
    [][ParseFailed =>
         UNCHANGED <<aseData, currentSelection, currentFileName,
                     historyStack, historyIndex>>]_vars

(***************************************************************************)
(* Specifications                                                          *)
(***************************************************************************)
SpecCodec == InitCodec /\ [][NextCodec]_vars

SpecColor == InitColor /\ [][NextColor]_vars

SpecSort == InitSort /\ [][NextSort]_vars

SpecTrip == InitTrip /\ [][NextTrip]_vars

SpecSession == InitSession /\ [][NextSession]_vars

SpecEdit == InitEdit /\ [][NextEdit]_vars

SpecStore == InitStore /\ [][NextStore]_vars

\* the event loop runs every timer that is due; nothing makes IndexedDB call back
SpecStoreLive ==
    SpecStore /\ WF_vars(Tick) /\ WF_vars(OpenTimedOut) /\ WF_vars(SaveTimerFires)

=============================================================================
